---------------------------- MODULE Spec2Model ----------------------------
(***************************************************************************)
(* Model of the helper core of the ThinkPal Decision Coach UI test suite:  *)
(* the retry/backoff utility (tests/helpers/retry-helper.ts), the          *)
(* readiness checker (tests/helpers/readiness-checker.ts) and the section  *)
(* validator (tests/helpers/tooltip-checker.ts).                           *)
(*                                                                         *)
(* One behaviour is one call of one entry point, chosen by prog in Init.   *)
(* Every await of the source is a step boundary: an action runs the code   *)
(* from one await to the next.  Strings are sequences of one-character     *)
(* strings so that toLowerCase, includes and replace are computed.         *)
(***************************************************************************)
EXTENDS Integers, Sequences, FiniteSets, TLC

VARIABLES
    prog,          \* the entry point this behaviour calls
    \* ---- retry / retryValidation / retryPageOperation ----
    operationName, \* the operationName argument (<<>> for retry)
    options,       \* the Partial<RetryOptions> argument
    attempt,       \* loop counter of the retry loop
    lastError,     \* let lastError: Error | null
    pc,            \* position of the retry call
    invocations,   \* number of times operation() was called
    raised,        \* outcomes of the completed operation() calls, in order
    sleeps,        \* delays handed to setTimeout, in order
    shots,         \* page.screenshot calls: path and whether it succeeded
    log,           \* console.log lines written by the retry call
    outcome,       \* how the retry call ended: returned value or thrown error
    \* ---- checkAppReadiness / waitForAppReady ----
    now,           \* Date.now()
    rcPc,          \* position of the checkAppReadiness call
    rcAttempt,     \* loop counter of checkAppReadiness
    gets,          \* outcomes of the GETs of the current checkAppReadiness call
    rcWaits,       \* delays waited by the current checkAppReadiness call
    rcResult,      \* ReadinessCheckResult returned (or exception escaped)
    wPc,           \* position of the waitForAppReady call
    timeoutMs,     \* the timeoutMs argument
    startTime,     \* const startTime = Date.now()
    polls,         \* isReady of each completed checkAppReadiness poll
    pollStarts,    \* elapsed time at which each poll was started
    wResult,       \* value returned by waitForAppReady
    \* ---- validateSection ----
    page,          \* the page: closed?, visible selectors, text of the parent
    sectionName,   \* the sectionName argument
    selectors,     \* the selectors argument
    minLengthArg,  \* the minLength argument (may be omitted)
    vsPc,          \* position of the validateSection call
    consulted,     \* selectors whose isVisible() was awaited in the loop
    vsResult,      \* SectionValidationResult returned (or exception escaped)
    \* ---- validateTooltips ----
    ttPage,        \* the page: closed?, the elements each strategy matches
    ttPc,          \* position of the validateTooltips call
    ttResult,      \* TooltipValidationResult returned (or exception escaped)
    ttCounted,     \* the selectors whose count() was awaited, in order
    \* ---- validateAllSections ----
    asPage,        \* the page: closed?, per section the visible selectors and text
    asPc,          \* position of the validateAllSections call
    asResult,      \* { isValid, results, errors } returned
    \* ---- layout centering tests ----
    lyPc,          \* position in the test body
    visibleWrappers, \* the wrapper selectors whose first match is visible
    wrapper,       \* selector of the element the test measures
    viewport,      \* what page.viewportSize() returns
    sizeIndex,     \* index into viewportSizes of the sweep's current size
    box,           \* the last value boundingBox() returned
    offsets,       \* the offsets computed so far, in half pixels
    layoutTrace,   \* the page operations performed, with the size they ran at
    asserted,      \* the values handed to expect(...) so far, in half pixels
    layoutOutcome, \* running, passed, or failed with the error thrown
    \* ---- main scenario ----
    scPc,          \* the step the scenario is at
    scAwaiting,    \* TRUE while the step's await is pending
    scStarted,     \* the steps started so far
    scCompleted,   \* the steps completed so far, each with what it settled with
    scShots,       \* the screenshots the scenario body itself has saved
    scOutcome,     \* running, passed, or failed with the error thrown
    \* ---- a scenario step wrapped in retryValidation ----
    wvOperation,   \* the validation the step wraps
    wvApp,         \* the state of the application at each possible attempt
    wvPc,          \* position in the step
    wvAttempt,     \* loop counter of retryValidation
    wvInvocations, \* how many times the wrapped validation was called
    wvSleeps,      \* the delays slept between attempts
    wvReturned,    \* the results the wrapped validation returned, in order
    wvOutcome,     \* running, passed, or failed with the error thrown
    \* ---- scenario instances run by the test runner ----
    parWorkers,    \* the number of workers the runner uses
    parInstances,  \* the two instances: each a scenario under a browser project
    parPc,         \* per instance: waiting, running or done
    parAttempt,    \* per instance: the attempt its 'Query input' operation is at
    parWrites,     \* the artifact files written, with who was running then
    \* ---- validateAppInterface ----
    vaPage,        \* the page: closed?, its elements in document order
    vaPc,          \* position of the validateAppInterface call
    vaResult       \* { isValid, errors } returned

retryVars == <<operationName, options, attempt, lastError, pc, invocations,
               raised, sleeps, shots, log, outcome>>
readyVars == <<rcPc, rcAttempt, gets, rcWaits, rcResult>>
waitVars  == <<wPc, timeoutMs, startTime, polls, pollStarts, wResult>>
sectionVars == <<page, sectionName, selectors, minLengthArg, vsPc, consulted, vsResult>>
tooltipVars == <<ttPage, ttPc, ttResult, ttCounted>>
allSectionsVars == <<asPage, asPc, asResult>>
layoutVars == <<lyPc, visibleWrappers, wrapper, viewport, sizeIndex, box,
                offsets, layoutTrace, asserted, layoutOutcome>>
scenarioVars == <<scPc, scAwaiting, scStarted, scCompleted, scShots, scOutcome>>
wrappedVars == <<wvOperation, wvApp, wvPc, wvAttempt, wvInvocations, wvSleeps,
                 wvReturned, wvOutcome>>
parallelVars == <<parWorkers, parInstances, parPc, parAttempt, parWrites>>
interfaceVars == <<vaPage, vaPc, vaResult>>
moreVars == <<wrappedVars, parallelVars, interfaceVars>>
laterVars == <<layoutVars, scenarioVars, moreVars>>
restVars == <<tooltipVars, allSectionsVars, laterVars>>
vars == <<prog, retryVars, now, readyVars, waitVars, sectionVars, restVars>>

(***************************************************************************)
(* Strings                                                                 *)
(***************************************************************************)
\* String.prototype.toLowerCase on one character
LowerChar(c) ==
    CASE c = "A" -> "a" [] c = "B" -> "b" [] c = "C" -> "c" [] c = "D" -> "d"
      [] c = "E" -> "e" [] c = "F" -> "f" [] c = "G" -> "g" [] c = "H" -> "h"
      [] c = "I" -> "i" [] c = "J" -> "j" [] c = "K" -> "k" [] c = "L" -> "l"
      [] c = "M" -> "m" [] c = "N" -> "n" [] c = "O" -> "o" [] c = "P" -> "p"
      [] c = "Q" -> "q" [] c = "R" -> "r" [] c = "S" -> "s" [] c = "T" -> "t"
      [] c = "U" -> "u" [] c = "V" -> "v" [] c = "W" -> "w" [] c = "X" -> "x"
      [] c = "Y" -> "y" [] c = "Z" -> "z" [] OTHER -> c

ToLowerCase(s) == [i \in 1..Len(s) |-> LowerChar(s[i])]

\* String.prototype.includes
Includes(s, sub) ==
    \E i \in 0..(Len(s) - Len(sub)) :
        \A j \in 1..Len(sub) : s[i + j] = sub[j]

\* the characters the regular expression class \s matches, of those modelled
IsSpace(c) == c \in {" ", "\t", "\n"}

RECURSIVE ReplaceSpaceRuns(_)
\* s.replace(/\s+/g, '-'): every maximal run of whitespace becomes one '-'
ReplaceSpaceRuns(s) ==
    IF s = <<>> THEN <<>>
    ELSE IF IsSpace(Head(s))
         THEN IF Len(s) > 1 /\ IsSpace(s[2])
              THEN ReplaceSpaceRuns(Tail(s))
              ELSE <<"-">> \o ReplaceSpaceRuns(Tail(s))
         ELSE <<Head(s)>> \o ReplaceSpaceRuns(Tail(s))

(***************************************************************************)
(* Retry utility                                                           *)
(***************************************************************************)
RetryVariants == {"retry", "retryValidation", "retryPageOperation"}
\* the variants that take an operationName
NamedVariants == {"retryValidation", "retryPageOperation"}

DEFAULT_RETRY_OPTIONS ==
    [maxRetries |-> 3, baseDelay |-> 500, maxDelay |-> 2000,
     backoffMultiplier |-> 2]

\* largest maxRetries given explicitly
MaxRetriesBound == 3

\* const config = { ...DEFAULT_RETRY_OPTIONS, ...options }
Config(opts) ==
    [f \in DOMAIN DEFAULT_RETRY_OPTIONS |->
        IF f \in DOMAIN opts THEN opts[f] ELSE DEFAULT_RETRY_OPTIONS[f]]

config == Config(options)

\* the Partial<RetryOptions> values a call is given
OptionValues ==
    [maxRetries |-> (-1)..MaxRetriesBound, baseDelay |-> {0, 300, 3000},
     maxDelay |-> {1000}, backoffMultiplier |-> {1, 3}]

PartialOptions ==
    UNION { { o \in [S -> UNION {OptionValues[f] : f \in S}] :
                \A f \in S : o[f] \in OptionValues[f] } :
            S \in SUBSET (DOMAIN DEFAULT_RETRY_OPTIONS) }

RECURSIVE Pow(_, _)
\* Math.pow on non-negative integer exponents
Pow(b, e) == IF e = 0 THEN 1 ELSE b * Pow(b, e - 1)

Min(a, b) == IF a <= b THEN a ELSE b

\* a plausible slip: the cap of Math.min is dropped
DelayUncapped(cfg, k) == cfg.baseDelay * Pow(cfg.backoffMultiplier, k - 1)

\* Math.min(baseDelay * Math.pow(backoffMultiplier, attempt - 1), maxDelay)
Delay(cfg, k) ==
    Min(cfg.baseDelay * Pow(cfg.backoffMultiplier, k - 1), cfg.maxDelay)

\* errors and values the wrapped operation produces
NoTag == <<>>
NULL == [id |-> "null", tag |-> NoTag]
OperationErrors == {[id |-> "E1", tag |-> NoTag], [id |-> "E2", tag |-> NoTag]}
OperationValues == {"V1", "V2"}
NoValue == "undefined"

OperationNames ==
    { <<"Q", "u", "e", "r", "y", " ", "i", "n", "p", "u", "t">>,
      <<"A", "s", "k", " ", " ", "b", "u", "t", "t", "o", "n">> }

\* a plausible slip: the failure is wrapped in a new Error
PropagatedAsNewError(err, name) == [id |-> "Error", tag |-> NoTag]

\* a plausible change: the failure is tagged with the operation name
PropagatedTagged(err, name) == [err EXCEPT !.tag = name]

\* the failure `throw lastError` hands to the caller
Propagated(err, name) == err

\* a plausible slip: > for ===, so the last failed attempt sleeps too
IsLastAttemptOffByOne(k, cfg) == k > cfg.maxRetries

\* if (attempt === config.maxRetries)
IsLastAttempt(k, cfg) == k = cfg.maxRetries

\* a plausible slip: the value of operation() is dropped
ReturnValueDropped(v) == NoValue

\* return await operation() / return result
ReturnValue(v) == v

\* `test-results/${operationName.toLowerCase().replace(/\s+/g, '-')}-attempt-${attempt}.png`
ScreenshotPath(name, k) ==
    [dir |-> "test-results", stem |-> ReplaceSpaceRuns(ToLowerCase(name)),
     attempt |-> k]

LogLine(kind, k, n) ==
    [kind |-> kind, name |-> IF prog \in NamedVariants THEN operationName ELSE <<>>,
     attempt |-> k, n |-> n]

InitRetry ==
    /\ prog \in RetryVariants
    /\ operationName \in IF prog \in NamedVariants THEN OperationNames ELSE {<<>>}
    /\ options \in PartialOptions
    /\ attempt = 1
    /\ lastError = NULL
    /\ pc = "loop"
    /\ invocations = 0
    /\ raised = <<>>
    /\ sleeps = <<>>
    /\ shots = <<>>
    /\ log = <<>>
    /\ outcome = [kind |-> "none", value |-> NoValue, error |-> NULL]

IdleRetry ==
    /\ operationName = <<>>
    /\ options = <<>>
    /\ attempt = 0
    /\ lastError = NULL
    /\ pc = "idle"
    /\ invocations = 0
    /\ raised = <<>>
    /\ sleeps = <<>>
    /\ shots = <<>>
    /\ log = <<>>
    /\ outcome = [kind |-> "none", value |-> NoValue, error |-> NULL]

\* the tail of the catch block, after the error is recorded (and the
\* screenshot attempted): rethrow on the last attempt, else set the timer
CatchTail(lg, err) ==
    IF IsLastAttempt(attempt, config)
    THEN /\ log' = Append(lg, LogLine("exhausted", attempt, config.maxRetries))
         /\ outcome' = [kind |-> "thrown", value |-> NoValue,
                        error |-> Propagated(err, operationName)]
         /\ pc' = "done"
         /\ UNCHANGED sleeps
    ELSE /\ log' = Append(lg, LogLine("retrying", attempt, Delay(config, attempt)))
         /\ sleeps' = Append(sleeps, Delay(config, attempt))
         /\ pc' = "awaitSleep"
         /\ UNCHANGED outcome

\* for (...; attempt <= config.maxRetries; ...) { try { ... await operation()
Invoke ==
    /\ pc = "loop"
    /\ attempt <= config.maxRetries
    /\ invocations' = invocations + 1
    /\ log' = IF prog \in NamedVariants
              THEN Append(log, LogLine("attempt", attempt, config.maxRetries))
              ELSE log
    /\ pc' = "awaitOperation"
    /\ UNCHANGED <<prog, operationName, options, attempt, lastError, raised,
                   sleeps, shots, outcome, now, readyVars, waitVars, sectionVars, restVars>>

\* a plausible change: the fall-through throws an Error of its own
LoopFallThroughThrowsError ==
    /\ pc = "loop"
    /\ ~(attempt <= config.maxRetries)
    /\ outcome' = [kind |-> "thrown", value |-> NoValue,
                   error |-> [id |-> "Error", tag |-> NoTag]]
    /\ pc' = "done"
    /\ UNCHANGED <<prog, operationName, options, attempt, lastError, invocations,
                   raised, sleeps, shots, log, now, readyVars, waitVars,
                   sectionVars, restVars>>

\* the loop condition is false: throw lastError! after the loop
LoopFallThrough ==
    /\ pc = "loop"
    /\ ~(attempt <= config.maxRetries)
    /\ outcome' = [kind |-> "thrown", value |-> NoValue, error |-> lastError]
    /\ pc' = "done"
    /\ UNCHANGED <<prog, operationName, options, attempt, lastError, invocations,
                   raised, sleeps, shots, log, now, readyVars, waitVars,
                   sectionVars, restVars>>

\* operation() resolves: return its value
OperationResolves ==
    /\ pc = "awaitOperation"
    /\ \E v \in OperationValues :
        /\ raised' = Append(raised, [ok |-> TRUE, value |-> v, error |-> NULL])
        /\ outcome' = [kind |-> "returned", value |-> ReturnValue(v),
                        error |-> NULL]
    /\ log' = IF prog \in NamedVariants /\ attempt > 1
              THEN Append(log, LogLine("succeeded", attempt, 0))
              ELSE log
    /\ pc' = "done"
    /\ UNCHANGED <<prog, operationName, options, attempt, lastError, invocations,
                   sleeps, shots, now, readyVars, waitVars, sectionVars, restVars>>

\* operation() rejects: the catch block up to its next await
OperationRejects ==
    /\ pc = "awaitOperation"
    /\ \E e \in OperationErrors :
        /\ raised' = Append(raised, [ok |-> FALSE, value |-> NoValue, error |-> e])
        /\ lastError' = e
        /\ IF prog = "retryPageOperation"
           THEN /\ log' = Append(log, LogLine("failed", attempt, 0))
                /\ pc' = "awaitScreenshot"
                /\ UNCHANGED <<sleeps, outcome>>
           ELSE CatchTail(IF prog = "retryValidation"
                          THEN Append(log, LogLine("failed", attempt, 0))
                          ELSE log, e)
    /\ UNCHANGED <<prog, operationName, options, attempt, invocations, shots,
                   now, readyVars, waitVars, sectionVars, restVars>>

\* page.screenshot({ path }) resolves
ScreenshotResolves ==
    /\ pc = "awaitScreenshot"
    /\ shots' = Append(shots, [path |-> ScreenshotPath(operationName, attempt),
                               saved |-> TRUE])
    /\ CatchTail(Append(log, LogLine("screenshot", attempt, 0)), lastError)
    /\ UNCHANGED <<prog, operationName, options, attempt, lastError, invocations,
                   raised, now, readyVars, waitVars, sectionVars, restVars>>

\* a plausible slip: no inner try/catch, the screenshot error escapes
ScreenshotRejectsEscapes ==
    /\ pc = "awaitScreenshot"
    /\ shots' = Append(shots, [path |-> ScreenshotPath(operationName, attempt),
                               saved |-> FALSE])
    /\ outcome' = [kind |-> "thrown", value |-> NoValue,
                   error |-> [id |-> "screenshotError", tag |-> NoTag]]
    /\ pc' = "done"
    /\ UNCHANGED <<prog, operationName, options, attempt, lastError, invocations,
                   raised, sleeps, log, now, readyVars, waitVars, sectionVars, restVars>>

\* page.screenshot({ path }) rejects: the inner catch logs and goes on
ScreenshotRejects ==
    /\ pc = "awaitScreenshot"
    /\ shots' = Append(shots, [path |-> ScreenshotPath(operationName, attempt),
                               saved |-> FALSE])
    /\ CatchTail(Append(log, LogLine("screenshotFailed", attempt, 0)), lastError)
    /\ UNCHANGED <<prog, operationName, options, attempt, lastError, invocations,
                   raised, now, readyVars, waitVars, sectionVars, restVars>>

\* the setTimeout promise resolves: attempt++
SleepResolves ==
    /\ pc = "awaitSleep"
    /\ attempt' = attempt + 1
    /\ pc' = "loop"
    /\ UNCHANGED <<prog, operationName, options, lastError, invocations, raised,
                   sleeps, shots, log, outcome, now, readyVars, waitVars,
                   sectionVars, restVars>>


(***************************************************************************)
(* Readiness checker                                                       *)
(***************************************************************************)
\* const maxRetries = 3 in checkAppReadiness
RcMaxRetries == 3
\* const retryDelay = 1000
RetryDelay == 1000
\* setTimeout(resolve, 2000) in waitForAppReady
PollPause == 2000

\* statuses the application answers with
Statuses == {200, 204, 503}
\* time a GET takes, and time by which a timer fires late
GetDurations == {0, 500}
TimerLateness == {0, 500}

\* if (response.status() === 200)
IsSuccessStatus(s) == s = 200

NoError == [text |-> "", status |-> 0]
\* `App responded with status ${response.status()}`
StatusError(s) == [text |-> "App responded with status", status |-> s]
\* `Connection failed: ${error}`
ConnectionError == [text |-> "Connection failed", status |-> 0]
FallThroughError ==
    [text |-> "App failed to respond after all retry attempts", status |-> 0]

RcPending ==
    [kind |-> "none", isReady |-> FALSE, error |-> NoError,
     hasResponseTime |-> FALSE]
RcReturn(ready, err, rt) ==
    [kind |-> "returned", isReady |-> ready, error |-> err,
     hasResponseTime |-> rt]
RcThrow(err) ==
    [kind |-> "thrown", isReady |-> FALSE, error |-> err,
     hasResponseTime |-> FALSE]

\* a plausible slip: the last failure is rethrown, as the retry utility does
RcCatchRethrows(k) == IF k = RcMaxRetries THEN "throw" ELSE "retry"

\* what the catch block does with a failed GET on attempt k
RcCatch(k) == IF k = RcMaxRetries THEN "return" ELSE "retry"

InitReady ==
    /\ rcPc = "loop"
    /\ rcAttempt = 1
    /\ gets = <<>>
    /\ rcWaits = <<>>
    /\ rcResult = RcPending

IdleReady ==
    /\ rcPc = "idle"
    /\ rcAttempt = 0
    /\ gets = <<>>
    /\ rcWaits = <<>>
    /\ rcResult = RcPending

\* if (attempt < maxRetries) await new Promise(... setTimeout(resolve, retryDelay))
RcAfterTry ==
    IF rcAttempt < RcMaxRetries
    THEN /\ rcWaits' = Append(rcWaits, RetryDelay)
         /\ rcPc' = "awaitWait"
         /\ UNCHANGED <<rcAttempt, rcResult>>
    ELSE /\ rcAttempt' = rcAttempt + 1
         /\ rcPc' = "loop"
         /\ UNCHANGED <<rcWaits, rcResult>>

\* for (...; attempt <= maxRetries; ...) { try { ... await page.request.get(
RcRequest ==
    /\ rcPc = "loop"
    /\ IF rcAttempt <= RcMaxRetries
       THEN /\ rcPc' = "awaitGet"
            /\ UNCHANGED rcResult
       ELSE /\ rcResult' = RcReturn(FALSE, FallThroughError, FALSE)
            /\ rcPc' = "done"
    /\ UNCHANGED <<prog, retryVars, now, rcAttempt, gets, rcWaits, waitVars,
                   sectionVars, restVars>>

\* the GET resolves with a response
GetResponds ==
    /\ rcPc = "awaitGet"
    /\ \E s \in Statuses, d \in GetDurations :
        /\ gets' = Append(gets, [failed |-> FALSE, status |-> s])
        /\ now' = now + d
        /\ IF IsSuccessStatus(s)
           THEN /\ rcResult' = RcReturn(TRUE, NoError, TRUE)
                /\ rcPc' = "done"
                /\ UNCHANGED <<rcAttempt, rcWaits>>
           ELSE IF rcAttempt = RcMaxRetries
                THEN /\ rcResult' = RcReturn(FALSE, StatusError(s), TRUE)
                     /\ rcPc' = "done"
                     /\ UNCHANGED <<rcAttempt, rcWaits>>
                ELSE RcAfterTry
    /\ UNCHANGED <<prog, retryVars, waitVars, sectionVars, restVars>>

\* the GET rejects (network failure): the catch block
GetFails ==
    /\ rcPc = "awaitGet"
    /\ \E d \in GetDurations : now' = now + d
    /\ gets' = Append(gets, [failed |-> TRUE, status |-> 0])
    /\ CASE RcCatch(rcAttempt) = "return" ->
              /\ rcResult' = RcReturn(FALSE, ConnectionError, FALSE)
              /\ rcPc' = "done"
              /\ UNCHANGED <<rcAttempt, rcWaits>>
         [] RcCatch(rcAttempt) = "retry" -> RcAfterTry
         [] OTHER ->
              /\ rcResult' = RcThrow(ConnectionError)
              /\ rcPc' = "done"
              /\ UNCHANGED <<rcAttempt, rcWaits>>
    /\ UNCHANGED <<prog, retryVars, waitVars, sectionVars, restVars>>

\* the retryDelay timer fires: attempt++
RcWaitResolves ==
    /\ rcPc = "awaitWait"
    /\ \E l \in TimerLateness : now' = now + RetryDelay + l
    /\ rcAttempt' = rcAttempt + 1
    /\ rcPc' = "loop"
    /\ UNCHANGED <<prog, retryVars, gets, rcWaits, rcResult, waitVars,
                   sectionVars, restVars>>


\* the timeoutMs arguments a call is given
Timeouts == {-1000, 0, 1, 4000, 4500}
\* no call of the model starts more polls than this
MaxPolls == 3

InitWait ==
    /\ wPc = "loop"
    /\ timeoutMs \in Timeouts
    /\ startTime = now
    /\ polls = <<>>
    /\ pollStarts = <<>>
    /\ wResult = "pending"

IdleWait ==
    /\ wPc = "idle"
    /\ timeoutMs = 0
    /\ startTime = 0
    /\ polls = <<>>
    /\ pollStarts = <<>>
    /\ wResult = "pending"

\* a plausible slip: the comparison is inverted
WaitConditionInverted(elapsed, timeout) == elapsed >= timeout

\* a plausible slip: <= for <, so a timeout of 0 still starts a poll
WaitConditionInclusive(elapsed, timeout) == elapsed <= timeout

\* Date.now() - startTime < timeoutMs
WaitCondition(elapsed, timeout) == elapsed < timeout

\* while (Date.now() - startTime < timeoutMs) { ... await checkAppReadiness(page)
WaitLoop ==
    /\ wPc = "loop"
    /\ IF WaitCondition(now - startTime, timeoutMs)
       THEN /\ Len(pollStarts) < MaxPolls
            /\ pollStarts' = Append(pollStarts, now - startTime)
            /\ wPc' = "awaitCheck"
            /\ rcPc' = "loop"
            /\ rcAttempt' = 1
            /\ gets' = <<>>
            /\ rcWaits' = <<>>
            /\ rcResult' = RcPending
            /\ UNCHANGED wResult
       ELSE /\ wResult' = "false"
            /\ wPc' = "done"
            /\ UNCHANGED <<pollStarts, readyVars>>
    /\ UNCHANGED <<prog, retryVars, now, timeoutMs, startTime, polls,
                   sectionVars, restVars>>

\* checkAppReadiness returned: if (result.isReady) return true; else pause
WaitCheckReturns ==
    /\ wPc = "awaitCheck"
    /\ rcPc = "done"
    /\ polls' = Append(polls, rcResult.kind = "returned" /\ rcResult.isReady)
    /\ IF rcResult.kind = "thrown"
       THEN /\ wResult' = "thrown"
            /\ wPc' = "done"
       ELSE IF rcResult.isReady
            THEN /\ wResult' = "true"
                 /\ wPc' = "done"
            ELSE /\ wPc' = "awaitPause"
                 /\ UNCHANGED wResult
    /\ UNCHANGED <<prog, retryVars, now, readyVars, timeoutMs, startTime,
                   pollStarts, sectionVars, restVars>>

\* the 2000 ms timer fires
WaitPauseResolves ==
    /\ wPc = "awaitPause"
    /\ \E l \in TimerLateness : now' = now + PollPause + l
    /\ wPc' = "loop"
    /\ UNCHANGED <<prog, retryVars, readyVars, timeoutMs, startTime, polls,
                   pollStarts, wResult, sectionVars, restVars>>


(***************************************************************************)
(* Section validator                                                       *)
(***************************************************************************)
\* minLength: number = 50
DefaultMinLength == 50

\* placeholderPatterns of validateSection, in source order
SectionPlaceholderPatterns == <<
    <<"N", "o", " ", "a", "n", "s", "w", "e", "r", " ", "a", "v", "a", "i", "l", "a", "b", "l", "e">>,
    <<"N", "o", " ", "c", "o", "n", "t", "e", "n", "t", " ", "a", "v", "a", "i", "l", "a", "b", "l", "e">>,
    <<"N", "o", " ", "s", "t", "r", "a", "t", "e", "g", "y", " ", "a", "v", "a", "i", "l", "a", "b", "l", "e">>,
    <<"N", "o", " ", "s", "t", "o", "r", "y", " ", "a", "v", "a", "i", "l", "a", "b", "l", "e">>,
    <<"N", "o", " ", "t", "o", "o", "l", "s", " ", "a", "v", "a", "i", "l", "a", "b", "l", "e">>,
    <<"N", "o", " ", "p", "r", "o", "m", "p", "t", "s", " ", "a", "v", "a", "i", "l", "a", "b", "l", "e">>,
    <<"N", "o", " ", "c", "o", "n", "c", "e", "p", "t", "s", " ", "a", "v", "a", "i", "l", "a", "b", "l", "e">>,
    <<"L", "o", "a", "d", "i", "n", "g", ".", ".", ".">>,
    <<"P", "l", "e", "a", "s", "e", " ", "w", "a", "i", "t", ".", ".", ".">>,
    <<"C", "o", "m", "i", "n", "g", " ", "s", "o", "o", "n", ".", ".", ".">>,
    <<"U", "n", "d", "e", "r", " ", "c", "o", "n", "s", "t", "r", "u", "c", "t", "i", "o", "n">> >>

\* a plausible slip: the comparison is case-sensitive
HasPlaceholderCaseSensitive(content) ==
    \E i \in 1..Len(SectionPlaceholderPatterns) :
        Includes(content, SectionPlaceholderPatterns[i])

\* placeholderPatterns.some(p => content.toLowerCase().includes(p.toLowerCase()))
HasPlaceholder(content) ==
    \E i \in 1..Len(SectionPlaceholderPatterns) :
        Includes(ToLowerCase(content), ToLowerCase(SectionPlaceholderPatterns[i]))

\* n characters of ordinary text
Filler(n) == [i \in 1..n |-> "x"]

\* lengths of the ordinary texts a page shows
ContentLengths == {0, 1, 2, 3, 49, 50, 51}

\* the texts textContent() yields
Contents ==
    {Filler(n) : n \in ContentLengths}
        \cup {Filler(45) \o <<"L", "O", "A", "D", "I", "N", "G", ".", ".", ".">>,
              Filler(45) \o <<"n", "o", " ", "s", "t", "o", "r", "y", " ",
                              "a", "v", "a", "i", "l", "a", "b", "l", "e">>,
              Filler(45) \o <<"L", "o", "a", "d", "i", "n", "g", ".", ".">>,
              <<"L", "o", "a", "d", "i", "n", "g", ".", ".", ".">>}

\* Locator.textContent() resolves to a string or to null
TextContents ==
    {[isNull |-> FALSE, str |-> c] : c \in Contents}
        \cup {[isNull |-> TRUE, str |-> <<>>]}

Selectors == {"s1", "s2"}
SelectorLists == {<<>>, <<"s1">>, <<"s1", "s2">>, <<"s2", "s1">>}

\* the minLength arguments a call is given
MinLengths == {0, 1, 3, 50}
MinLengthArgs ==
    {[given |-> TRUE, value |-> m] : m \in MinLengths}
        \cup {[given |-> FALSE, value |-> 0]}

\* the parameter default
MinLength(arg) == IF arg.given THEN arg.value ELSE DefaultMinLength

\* a plausible slip: the break is missing, every selector is tried and the
\* last one is kept
SelectorLoopNoBreak(sels, visible) == sels

RECURSIVE SelectorLoop(_, _)
\* for (const selector of selectors) { section = ...; if (await
\* section.isVisible()) break; }: the selectors whose visibility is awaited
SelectorLoop(sels, visible) ==
    IF sels = <<>> THEN <<>>
    ELSE IF Head(sels) \in visible THEN <<Head(sels)>>
         ELSE <<Head(sels)>> \o SelectorLoop(Tail(sels), visible)

VsPending ==
    [kind |-> "none", isValid |-> FALSE, sectionName |-> "", hasContent |-> FALSE,
     content |-> <<>>, error |-> "", characterCount |-> 0]

\* the result object as initialised, with an error set and nothing else
VsFail(name, err) ==
    [kind |-> "returned", isValid |-> FALSE, sectionName |-> name,
     hasContent |-> FALSE, content |-> <<>>, error |-> err, characterCount |-> 0]

\* a plausible slip: <= for <, a content of exactly minLength is rejected
TooShortInclusive(count, minLength) == count <= minLength

\* result.characterCount < minLength
TooShort(count, minLength) == count < minLength

\* the "Validation checks" chain on the extracted content
VsChecked(name, content, minLength) ==
    [kind |-> "returned", sectionName |-> name, hasContent |-> TRUE,
     content |-> content, characterCount |-> Len(content),
     isValid |-> /\ content # <<>>
                 /\ ~TooShort(Len(content), minLength)
                 /\ ~HasPlaceholder(content),
     error |-> IF content = <<>> THEN "Section has no content"
               ELSE IF TooShort(Len(content), minLength) THEN "Section too short"
               ELSE IF HasPlaceholder(content)
                    THEN "Section contains placeholder text"
                    ELSE ""]

\* a plausible slip: the catch clause rethrows
VsCatchRethrows(name) ==
    [VsFail(name, "Error validating section") EXCEPT !.kind = "thrown"]

\* what the catch clause of validateSection does with an exception
VsCatch(name) == VsFail(name, "Error validating section")

\* the body of validateSection
ValidateSectionResult(pg, name, sels, minLength) ==
    LET loop == SelectorLoop(sels, pg.visible)
    IN  IF sels = <<>>
        THEN VsFail(name, "Section not found or not visible")
        ELSE IF pg.closed
        THEN VsCatch(name)
        ELSE IF loop[Len(loop)] \notin pg.visible
        THEN VsFail(name, "Section not found or not visible")
        ELSE VsChecked(name, IF pg.text.isNull THEN <<>> ELSE pg.text.str,
                       minLength)

InitSection ==
    /\ page \in [closed : BOOLEAN, visible : SUBSET Selectors, text : TextContents]
    /\ sectionName \in {"Story in Action"}
    /\ selectors \in SelectorLists
    /\ minLengthArg \in MinLengthArgs
    /\ vsPc = "start"
    /\ consulted = <<>>
    /\ vsResult = VsPending

IdleSection ==
    /\ page = [closed |-> FALSE, visible |-> {}, text |-> [isNull |-> TRUE, str |-> <<>>]]
    /\ sectionName = ""
    /\ selectors = <<>>
    /\ minLengthArg = [given |-> FALSE, value |-> 0]
    /\ vsPc = "idle"
    /\ consulted = <<>>
    /\ vsResult = VsPending

\* one call of validateSection on a page that does not change during the call
ValidateSection ==
    /\ vsPc = "start"
    /\ vsResult' = ValidateSectionResult(page, sectionName, selectors,
                                         MinLength(minLengthArg))
    /\ consulted' = IF page.closed /\ selectors # <<>> THEN <<Head(selectors)>>
                    ELSE SelectorLoop(selectors, page.visible)
    /\ vsPc' = "done"
    /\ UNCHANGED <<prog, retryVars, now, readyVars, waitVars, page, sectionName,
                   selectors, minLengthArg, restVars>>

(***************************************************************************)
(* Tooltip validator                                                       *)
(***************************************************************************)
\* placeholderPatterns of validateTooltips, in source order
TooltipPlaceholderPatterns == <<
    <<"N", "o", " ", "d", "e", "s", "c", "r", "i", "p", "t", "i", "o", "n", " ", "a", "v", "a", "i", "l", "a", "b", "l", "e">>,
    <<"N", "o", " ", "t", "o", "o", "l", "t", "i", "p", " ", "a", "v", "a", "i", "l", "a", "b", "l", "e">>,
    <<"C", "l", "i", "c", "k", " ", "f", "o", "r", " ", "m", "o", "r", "e", " ", "i", "n", "f", "o">>,
    <<"H", "o", "v", "e", "r", " ", "f", "o", "r", " ", "d", "e", "t", "a", "i", "l", "s">>,
    <<"L", "o", "a", "d", "i", "n", "g", ".", ".", ".">>,
    <<"P", "l", "e", "a", "s", "e", " ", "w", "a", "i", "t", ".", ".", ".">> >>

\* placeholderPatterns.some(p => tooltip.toLowerCase().includes(p.toLowerCase()))
IsPlaceholder(tooltip) ==
    \E i \in 1..Len(TooltipPlaceholderPatterns) :
        Includes(ToLowerCase(tooltip), ToLowerCase(TooltipPlaceholderPatterns[i]))

RECURSIVE TrimStart(_)
TrimStart(s) ==
    IF s # <<>> /\ IsSpace(Head(s)) THEN TrimStart(Tail(s)) ELSE s

RECURSIVE TrimEnd(_)
TrimEnd(s) ==
    IF s # <<>> /\ IsSpace(s[Len(s)]) THEN TrimEnd(SubSeq(s, 1, Len(s) - 1)) ELSE s

\* String.prototype.trim
Trim(s) == TrimEnd(TrimStart(s))

\* a value that is null or a string
Null == [isNull |-> TRUE, str |-> <<>>]
Str(s) == [isNull |-> FALSE, str |-> s]
\* JavaScript truthiness of such a value
Truthy(v) == ~v.isNull /\ v.str # <<>>

\* getAttribute('data-tooltip') || getAttribute('title') ||
\* getAttribute('aria-label') || ''
TooltipText(el) ==
    IF Truthy(el.dataTooltip) THEN el.dataTooltip.str
    ELSE IF Truthy(el.title) THEN el.title.str
    ELSE IF Truthy(el.ariaLabel) THEN el.ariaLabel.str
    ELSE <<>>

\* term?.trim() || ''
TermText(el) == IF el.text.isNull THEN <<>> ELSE Trim(el.text.str)

\* minimum lengths of the term and of the tooltip text
MinTermLength == 2
MinTooltipLength == 15

\* a plausible slip: the tooltip text is measured before it is trimmed
DetailUntrimmed(el) ==
    LET term == TermText(el)
        tooltip == TooltipText(el)
        error == IF term = <<>> THEN "Missing term text"
                 ELSE IF Len(term) < MinTermLength THEN "Term too short"
                 ELSE IF tooltip = <<>> THEN "Missing tooltip content"
                 ELSE IF Len(tooltip) < MinTooltipLength THEN "Tooltip too short"
                 ELSE IF IsPlaceholder(tooltip)
                      THEN "Tooltip contains placeholder text"
                      ELSE ""
    IN  [term |-> term, tooltip |-> Trim(tooltip), isValid |-> error = "",
         error |-> error]

\* the detail object of one element after the "Validation checks" chain
Detail(el) ==
    LET term == TermText(el)
        tooltip == Trim(TooltipText(el))
        error == IF term = <<>> THEN "Missing term text"
                 ELSE IF Len(term) < MinTermLength THEN "Term too short"
                 ELSE IF tooltip = <<>> THEN "Missing tooltip content"
                 ELSE IF Len(tooltip) < MinTooltipLength THEN "Tooltip too short"
                 ELSE IF IsPlaceholder(tooltip)
                      THEN "Tooltip contains placeholder text"
                      ELSE ""
    IN  [term |-> term, tooltip |-> tooltip, isValid |-> error = "",
         error |-> error]

\* a plausible slip: the [data-tooltip] step is missing from the chain
LocatedSkipsData(pg) ==
    IF pg.byClass # <<>> THEN pg.byClass ELSE pg.byTitle

\* the fallback chain: span[class*="tooltip"], then [data-tooltip], then [title]
Located(pg) ==
    IF pg.byClass # <<>> THEN pg.byClass
    ELSE IF pg.byData # <<>> THEN pg.byData
    ELSE pg.byTitle

\* the selectors whose `await tooltips.count()` runs: each `if (count === 0)`
\* guards the next; on a closed page the first count() throws
CountsAwaited(pg) ==
    <<"span[class*=\"tooltip\"]">>
        \o (IF ~pg.closed /\ pg.byClass = <<>>
            THEN <<"[data-tooltip]">>
                    \o (IF pg.byData = <<>> THEN <<"[title]">> ELSE <<>>)
            ELSE <<>>)

TtPending ==
    [kind |-> "none", isValid |-> FALSE, tooltipCount |-> 0, validTooltips |-> 0,
     errors |-> <<>>, details |-> <<>>]

\* the catch clause of validateTooltips: the first page call failed
TtCatch ==
    [kind |-> "returned", isValid |-> FALSE, tooltipCount |-> 0,
     validTooltips |-> 0,
     errors |-> <<[term |-> <<>>, error |-> "Error checking tooltips"]>>,
     details |-> <<>>]

\* a plausible slip: one valid tooltip is enough, errors are not looked at
OverallValidIgnoresErrors(validTooltips, errors) == validTooltips > 0

\* result.validTooltips > 0 && result.errors.length === 0
OverallValid(validTooltips, errors) == validTooltips > 0 /\ Len(errors) = 0

\* the body of validateTooltips
ValidateTooltipsResult(pg) ==
    IF pg.closed THEN TtCatch
    ELSE LET els == Located(pg)
             details == [i \in 1..Len(els) |-> Detail(els[i])]
             failed == SelectSeq(details, LAMBDA d : ~d.isValid /\ d.error # "")
             errors == [i \in 1..Len(failed) |->
                          [term |-> failed[i].term, error |-> failed[i].error]]
             valid == Cardinality({i \in 1..Len(els) : details[i].isValid})
         IN  IF Len(els) = 0
             THEN [kind |-> "returned", isValid |-> FALSE, tooltipCount |-> 0,
                   validTooltips |-> 0,
                   errors |-> <<[term |-> <<>>,
                                 error |-> "No tooltips found in response"]>>,
                   details |-> <<>>]
             ELSE [kind |-> "returned", isValid |-> OverallValid(valid, errors),
                   tooltipCount |-> Len(els), validTooltips |-> valid,
                   errors |-> errors, details |-> details]

GoodTooltip == <<"M", "a", "n", "a", "g", "i", "n", "g", " ", "r", "i", "s", "k", "s", ".">>
ShortTooltip == <<" ", " ", "M", "a", "n", "a", "g", "i", "n", "g", " ", "r", "i", "s", "k", ".", " ", " ">>
PlaceholderTooltip == <<"x", "x", " ", "H", "O", "V", "E", "R", " ", "F", "O", "R", " ", "D", "E", "T", "A", "I", "L", "S">>

El(text, data, title, aria) ==
    [text |-> text, dataTooltip |-> data, title |-> title, ariaLabel |-> aria]

\* the elements a page holds
Elements ==
    { El(Str(<<"R", "i", "s", "k">>), Null, Str(GoodTooltip), Null),
      El(Str(<<" ", "A", "b", " ">>), Str(<<>>), Str(GoodTooltip), Null),
      El(Null, Null, Str(GoodTooltip), Null),
      El(Str(<<" ", " ">>), Null, Str(PlaceholderTooltip), Null),
      El(Str(<<" ", "A", " ">>), Null, Str(GoodTooltip), Null),
      El(Str(<<"R", "i", "s", "k">>), Null, Str(<<>>), Null),
      El(Str(<<"R", "i", "s", "k">>), Str(<<" ", " ">>), Str(GoodTooltip), Null),
      El(Str(<<"R", "i", "s", "k">>), Str(ShortTooltip), Str(GoodTooltip), Null),
      El(Str(<<"R", "i", "s", "k">>), Null, Null, Str(PlaceholderTooltip)) }

\* most elements one strategy matches
MaxTooltips == 2

ElementLists == UNION {[1..n -> Elements] : n \in 0..MaxTooltips}

\* what the two fallback strategies match
FallbackLists ==
    { <<>>,
      <<El(Str(<<"R", "i", "s", "k">>), Str(GoodTooltip), Str(ShortTooltip), Null)>>,
      <<El(Str(<<"R", "i", "s", "k">>), Null, Str(PlaceholderTooltip), Null)>> }

InitTooltips ==
    /\ ttPage \in [closed : BOOLEAN, byClass : ElementLists,
                   byData : FallbackLists, byTitle : FallbackLists]
    /\ ttPc = "start"
    /\ ttResult = TtPending
    /\ ttCounted = <<>>

IdleTooltips ==
    /\ ttPage = [closed |-> FALSE, byClass |-> <<>>, byData |-> <<>>,
                 byTitle |-> <<>>]
    /\ ttPc = "idle"
    /\ ttResult = TtPending
    /\ ttCounted = <<>>

\* one call of validateTooltips on a page that does not change during the call
ValidateTooltips ==
    /\ ttPc = "start"
    /\ ttResult' = ValidateTooltipsResult(ttPage)
    /\ ttCounted' = CountsAwaited(ttPage)
    /\ ttPc' = "done"
    /\ UNCHANGED <<prog, retryVars, now, readyVars, waitVars, sectionVars, ttPage,
                   allSectionsVars, laterVars>>

(***************************************************************************)
(* validateAllSections                                                     *)
(***************************************************************************)
\* const sections = [...] of validateAllSections
Sections == <<
    [name |-> "How to Strategize Your Decision",
     selectors |-> <<"[data-testid=\"strategy-section\"]",
                     "[data-testid=\"strategic-section\"]",
                     "text=How to Strategize Your Decision",
                     "text=Strategic Thinking",
                     "text=Strategy">>],
    [name |-> "Story in Action",
     selectors |-> <<"[data-testid=\"story-section\"]",
                     "text=Story in Action",
                     "text=Example",
                     "text=Case Study">>],
    [name |-> "Analytical Tools",
     selectors |-> <<"[data-testid=\"tools-section\"]",
                     "[data-testid=\"analytical-section\"]",
                     "text=Analytical Tools",
                     "text=Tools",
                     "text=Analysis">>],
    [name |-> "Reflection Prompts",
     selectors |-> <<"[data-testid=\"prompts-section\"]",
                     "[data-testid=\"reflection-section\"]",
                     "text=Reflection Prompts",
                     "text=Prompts",
                     "text=Questions">>],
    [name |-> "Concepts/Tools/Practice Reference",
     selectors |-> <<"[data-testid=\"concepts-section\"]",
                     "[data-testid=\"reference-section\"]",
                     "text=Concepts/Tools/Practice Reference",
                     "text=Key Concepts",
                     "text=Concepts">>] >>

\* what a page shows of one section: which of its selectors resolve to a
\* visible element, and the text of the parent of the first of them
SectionViews(sec) ==
    LET last == sec.selectors[Len(sec.selectors)]
    IN  { [visible |-> {}, text |-> Null],
          [visible |-> {sec.selectors[2]}, text |-> Str(Filler(50))],
          [visible |-> {last}, text |-> Str(Filler(49))],
          [visible |-> {sec.selectors[2], last},
           text |-> Str(Filler(45) \o <<"L", "O", "A", "D", "I", "N", "G", ".", ".", ".">>)] }

\* the page as validateSection sees it for section i
PageOfSection(pg, i) ==
    [closed |-> pg.closed, visible |-> pg.views[i].visible,
     text |-> pg.views[i].text]

\* a plausible slip: some for every
AllValidSome(results) == \E i \in DOMAIN results : results[i].isValid

\* results.every(r => r.isValid)
AllValid(results) == \A i \in DOMAIN results : results[i].isValid

AsPending == [kind |-> "none", isValid |-> FALSE, results |-> <<>>, errors |-> <<>>]

\* the body of validateAllSections
ValidateAllSectionsResult(pg) ==
    LET results == [i \in 1..Len(Sections) |->
                      ValidateSectionResult(PageOfSection(pg, i), Sections[i].name,
                                            Sections[i].selectors, DefaultMinLength)]
        invalid == SelectSeq([i \in 1..Len(Sections) |-> i],
                             LAMBDA i : ~results[i].isValid)
    IN  [kind |-> "returned", isValid |-> AllValid(results), results |-> results,
         errors |-> [k \in 1..Len(invalid) |->
                       [name |-> Sections[invalid[k]].name,
                        error |-> results[invalid[k]].error]]]

\* the pages: one view for each of the five sections
PageViews ==
    { <<v1, v2, v3, v4, v5>> :
        v1 \in SectionViews(Sections[1]), v2 \in SectionViews(Sections[2]),
        v3 \in SectionViews(Sections[3]), v4 \in SectionViews(Sections[4]),
        v5 \in SectionViews(Sections[5]) }

InitAllSections ==
    /\ asPage \in [closed : BOOLEAN, views : PageViews]
    /\ asPc = "start"
    /\ asResult = AsPending

IdleAllSections ==
    /\ asPage = [closed |-> FALSE, views |-> <<>>]
    /\ asPc = "idle"
    /\ asResult = AsPending

\* one call of validateAllSections on a page that does not change during it
ValidateAllSections ==
    /\ asPc = "start"
    /\ asResult' = ValidateAllSectionsResult(asPage)
    /\ asPc' = "done"
    /\ UNCHANGED <<prog, retryVars, now, readyVars, waitVars, sectionVars,
                   tooltipVars, asPage, laterVars>>

(***************************************************************************)
(* Layout centering tests (layout-center.spec.ts)                          *)
(***************************************************************************)
\* the three tests of the describe block:
\*   "centered"       main layout wrapper is horizontally centered
\*   "viewportSweep"  layout centering persists across different viewport sizes
\*   "dynamicContent" layout centering works with dynamic content
LayoutTests == {"centered", "viewportSweep", "dynamicContent"}

wrapperSelectors ==
    <<".main-wrapper", ".main-container", ".app-wrapper", ".container", "main",
      "#root > div">>

viewportSizes ==
    << [width |-> 1920, height |-> 1080, name |-> "Desktop HD"],
       [width |-> 1366, height |-> 768,  name |-> "Laptop"],
       [width |-> 1024, height |-> 768,  name |-> "Tablet Landscape"],
       [width |-> 768,  height |-> 1024, name |-> "Tablet Portrait"],
       [width |-> 375,  height |-> 667,  name |-> "Mobile"],
       [width |-> 320,  height |-> 568,  name |-> "Small Mobile"] >>

\* the loop over wrapperSelectors with its break, and the body fallback
FindWrapperLast(visible) ==
    LET hits == {i \in DOMAIN wrapperSelectors : wrapperSelectors[i] \in visible}
    IN  IF hits = {} THEN "body"
        ELSE wrapperSelectors[CHOOSE i \in hits : \A j \in hits : j <= i]

FindWrapperFrom(visible) ==
    LET hits == {i \in DOMAIN wrapperSelectors : wrapperSelectors[i] \in visible}
    IN  IF hits = {} THEN "body"
        ELSE wrapperSelectors[CHOOSE i \in hits : \A j \in hits : i <= j]

\* Math.abs
Abs(n) == IF n < 0 THEN -n ELSE n

\* Lengths are whole pixels except box.x, which is kept in half pixels
\* (x2 = 2 * box.x), so that twice every centre and twice every offset is an
\* integer: the operators ending in 2 give twice the value of the source's.
\* box.x + box.width / 2
WrapperCenter2(b) == b.x2 + b.width
\* viewport.width / 2
ViewportCenter2(width) == width

\* wrapperCenter - viewportCenter without Math.abs
OffsetSigned2(b, width) == WrapperCenter2(b) - ViewportCenter2(width)

\* Math.abs(wrapperCenter - viewportCenter)
Offset2(b, width) == Abs(WrapperCenter2(b) - ViewportCenter2(width))

\* const tolerance = 5
tolerance == 5

\* expect(offset).toBeLessThanOrEqual(tolerance)
WithinTolerance(offset2) == offset2 <= 2 * tolerance

\* viewport.width < 768
IsMobileStrict(width) == width < 768

\* const isMobile = viewport.width <= 768
IsMobile(width) == width <= 768

\* const maxChange = isMobile ? 5 : 2
MaxChange(width) == IF IsMobile(width) THEN 5 ELSE 2

\* Math.abs(finalOffset - initialOffset)
CenteringChange2(final2, initial2) == Abs(final2 - initial2)

\* expect(centeringChange).toBeLessThanOrEqual(maxChange)
WithinMaxChange(change2, width) == change2 <= 2 * MaxChange(width)

\* Errors that end a test.  text is the fixed part of the message, sizeName
\* the interpolated ${size.name} ("" when the message has none), received2
\* and expected the numbers an expect failure reports.
LayoutError(text, name) ==
    [text |-> text, sizeName |-> name, received2 |-> 0, expected |-> 0]
\* expect(...).toBeLessThanOrEqual(...) is called without a message
ExpectError(received2, expected) ==
    [text |-> "expect(received).toBeLessThanOrEqual(expected)", sizeName |-> "",
     received2 |-> received2, expected |-> expected]
ScreenshotError == LayoutError("page.screenshot failed", "")
ViewportError == LayoutError("Viewport size not available", "")
\* the four `throw new Error(...)` after `if (!box)`
BoxError(test, measured, name) ==
    CASE test = "centered" -> LayoutError("Wrapper bounding box not available", "")
      [] test = "viewportSweep" ->
             LayoutError("Wrapper bounding box not available for", name)
      [] test = "dynamicContent" /\ measured = 0 ->
             LayoutError("Initial wrapper bounding box not available", "")
      [] OTHER -> LayoutError("Final wrapper bounding box not available", "")

NoLayoutError == LayoutError("", "")
Running == [status |-> "running", error |-> NoLayoutError]
Passed == [status |-> "passed", error |-> NoLayoutError]
Failed(err) == [status |-> "failed", error |-> err]

\* values of page.viewportSize() and of boundingBox()
NullViewport == [isNull |-> TRUE, width |-> 0]
Viewport(width) == [isNull |-> FALSE, width |-> width]
NullBox == [isNull |-> TRUE, x2 |-> 0, width |-> 0]
Box(x2, width) == [isNull |-> FALSE, x2 |-> x2, width |-> width]

\* Playwright's default viewport is 1280 wide
DefaultViewportWidth == 1280
PageViewports ==
    {NullViewport, Viewport(768), Viewport(769), Viewport(DefaultViewportWidth)}

VisibleWrapperSets == {{}, {"main"}, {".container", "#root > div"}}

\* boxes the page can lay the wrapper out in, as <<2 * x, viewport width minus
\* box width>>: centred, off centre by 2, 2.5, 5, 5.5 and -6 px, and narrower
\* than the viewport by 10 and 12 px at x = 0
BoxShapes ==
    {<<0, 0>>, <<4, 0>>, <<5, 0>>, <<10, 0>>, <<11, 0>>, <<-12, 0>>,
     <<0, 10>>, <<0, 12>>}
\* the sweep, which measures six times, draws from four of them; the
\* dynamic-content test also meets offsets of 7, 7.5, 10 and 10.5 px
Boxes(test, width) ==
    {Box(sh[1], width - sh[2]) :
        sh \in CASE test = "viewportSweep" ->
                    {<<0, 0>>, <<0, 10>>, <<11, 0>>, <<0, 12>>}
               [] test = "dynamicContent" ->
                    BoxShapes \cup {<<14, 0>>, <<15, 0>>, <<20, 0>>, <<21, 0>>}
               [] OTHER -> BoxShapes}

\* the viewport size the measurement runs at
CurrentSize == IF sizeIndex = 0 THEN "" ELSE viewportSizes[sizeIndex].name
PageWidth == IF viewport.isNull THEN DefaultViewportWidth ELSE viewport.width

InitLayout ==
    /\ lyPc = IF prog = "viewportSweep" THEN "setViewportSize" ELSE "goto"
    /\ visibleWrappers \in VisibleWrapperSets
    /\ wrapper = ""
    /\ viewport \in IF prog = "viewportSweep"
                    THEN {Viewport(DefaultViewportWidth)} ELSE PageViewports
    /\ sizeIndex = IF prog = "viewportSweep" THEN 1 ELSE 0
    /\ box = NullBox
    /\ offsets = <<>>
    /\ layoutTrace = <<>>
    /\ asserted = <<>>
    /\ layoutOutcome = Running

IdleLayout ==
    /\ lyPc = "idle"
    /\ visibleWrappers = {}
    /\ wrapper = ""
    /\ viewport = NullViewport
    /\ sizeIndex = 0
    /\ box = NullBox
    /\ offsets = <<>>
    /\ layoutTrace = <<>>
    /\ asserted = <<>>
    /\ layoutOutcome = Running

otherVars == <<prog, retryVars, now, readyVars, waitVars, sectionVars,
               tooltipVars, allSectionsVars, scenarioVars, moreVars>>

\* an exception or a failed expect leaves the test body
LayoutFails(err) ==
    /\ layoutOutcome' = Failed(err)
    /\ lyPc' = "done"

\* await page.setViewportSize(size)
SetViewportSize ==
    /\ lyPc = "setViewportSize"
    /\ viewport' = Viewport(viewportSizes[sizeIndex].width)
    /\ layoutTrace' = Append(layoutTrace, <<"setViewportSize", CurrentSize>>)
    /\ lyPc' = "goto"
    /\ UNCHANGED <<otherVars, asserted, visibleWrappers, wrapper, sizeIndex, box, offsets,
                   layoutOutcome>>

\* await page.goto('/'); await page.waitForLoadState('networkidle')
Goto ==
    /\ lyPc = "goto"
    /\ \E loaded \in BOOLEAN :
          IF loaded
          THEN /\ layoutTrace' = Append(layoutTrace, <<"goto", CurrentSize>>)
               /\ lyPc' = "findWrapper"
               /\ UNCHANGED layoutOutcome
          ELSE /\ LayoutFails(LayoutError("page.goto failed", ""))
               /\ UNCHANGED layoutTrace
    /\ UNCHANGED <<otherVars, asserted, visibleWrappers, wrapper, viewport, sizeIndex, box,
                   offsets>>

\* the wrapper search; the centered test reads the viewport next, the other
\* two the bounding box
FindWrapper ==
    /\ lyPc = "findWrapper"
    /\ wrapper' = FindWrapperFrom(visibleWrappers)
    /\ lyPc' = IF prog = "centered" THEN "viewportSize" ELSE "boundingBox"
    /\ UNCHANGED <<otherVars, asserted, visibleWrappers, viewport, sizeIndex, box, offsets,
                   layoutTrace, layoutOutcome>>

\* a plausible change: the dynamic-content test also holds the initial offset
\* to the tolerance
ViewportSizeAssertsInitial ==
    /\ lyPc = "viewportSize"
    /\ IF viewport.isNull
       THEN /\ LayoutFails(ViewportError)
            /\ UNCHANGED <<offsets, asserted>>
       ELSE /\ offsets' = IF prog = "centered" THEN offsets
                          ELSE <<Offset2(box, viewport.width)>>
            /\ IF prog = "centered"
               THEN /\ lyPc' = "boundingBox"
                    /\ UNCHANGED <<asserted, layoutOutcome>>
               ELSE /\ asserted' = Append(asserted, Offset2(box, viewport.width))
                    /\ IF WithinTolerance(Offset2(box, viewport.width))
                       THEN /\ lyPc' = "submit"
                            /\ UNCHANGED layoutOutcome
                       ELSE LayoutFails(ExpectError(Offset2(box, viewport.width),
                                                    tolerance))
    /\ UNCHANGED <<otherVars, visibleWrappers, wrapper, viewport, sizeIndex, box,
                   layoutTrace>>

\* const viewport = page.viewportSize(); if (!viewport) throw ...
\* In the dynamic-content test the initial offset is computed right after.
ViewportSize ==
    /\ lyPc = "viewportSize"
    /\ IF viewport.isNull
       THEN /\ LayoutFails(ViewportError)
            /\ UNCHANGED offsets
       ELSE /\ lyPc' = IF prog = "centered" THEN "boundingBox" ELSE "submit"
            /\ offsets' = IF prog = "centered" THEN offsets
                          ELSE <<Offset2(box, viewport.width)>>
            /\ UNCHANGED layoutOutcome
    /\ UNCHANGED <<otherVars, asserted, visibleWrappers, wrapper, viewport, sizeIndex, box,
                   layoutTrace>>

\* const box = await wrapper.boundingBox(); if (!box) throw ...; and the
\* offset computed from it (against viewport.width, in the sweep size.width)
BoundingBox ==
    /\ lyPc \in {"boundingBox", "finalBox"}
    /\ \E b \in Boxes(prog, PageWidth) \cup {NullBox} :
          /\ box' = b
          /\ IF b.isNull
             THEN /\ LayoutFails(BoxError(prog, Len(offsets), CurrentSize))
                  /\ UNCHANGED <<offsets, layoutTrace>>
             ELSE /\ layoutTrace' = Append(layoutTrace, <<"boundingBox", CurrentSize>>)
                  /\ UNCHANGED layoutOutcome
                  /\ CASE prog = "centered" ->
                             /\ offsets' = <<Offset2(b, viewport.width)>>
                             /\ lyPc' = "screenshot"
                       [] prog = "viewportSweep" ->
                             /\ offsets' = Append(offsets,
                                    Offset2(b, viewportSizes[sizeIndex].width))
                             /\ lyPc' = "screenshot"
                       [] prog = "dynamicContent" /\ lyPc = "boundingBox" ->
                             /\ offsets' = offsets
                             /\ lyPc' = "viewportSize"
                       [] OTHER ->
                             /\ offsets' = Append(offsets, Offset2(b, viewport.width))
                             /\ lyPc' = "screenshot"
    /\ UNCHANGED <<otherVars, asserted, visibleWrappers, wrapper, viewport, sizeIndex>>

\* fill the query, click Ask, waitForSelector (30 s) and waitForTimeout(3000)
SubmitQuery ==
    /\ lyPc = "submit"
    /\ \E rendered \in BOOLEAN :
          IF rendered
          THEN /\ layoutTrace' = Append(layoutTrace, <<"submit", CurrentSize>>)
               /\ lyPc' = "finalBox"
               /\ UNCHANGED layoutOutcome
          ELSE /\ LayoutFails(LayoutError("query submission failed", ""))
               /\ UNCHANGED layoutTrace
    /\ UNCHANGED <<otherVars, asserted, visibleWrappers, wrapper, viewport, sizeIndex, box,
                   offsets>>

\* await page.screenshot({...}), outside any try block
TakeScreenshot ==
    /\ lyPc = "screenshot"
    /\ \E saved \in BOOLEAN :
          IF saved
          THEN /\ lyPc' = "expect"
               /\ UNCHANGED layoutOutcome
          ELSE LayoutFails(ScreenshotError)
    /\ UNCHANGED <<otherVars, asserted, visibleWrappers, wrapper, viewport, sizeIndex, box,
                   offsets, layoutTrace>>

\* expect(offset).toBeLessThanOrEqual(tolerance) on the offset just computed;
\* the sweep then goes on to its next size
ExpectOffset ==
    /\ lyPc = "expect"
    /\ asserted' = Append(asserted, offsets[Len(offsets)])
    /\ LET offset2 == offsets[Len(offsets)]
       IN  IF ~WithinTolerance(offset2)
           THEN /\ LayoutFails(ExpectError(offset2, tolerance))
                /\ UNCHANGED sizeIndex
           ELSE CASE prog = "viewportSweep" /\ sizeIndex < Len(viewportSizes) ->
                        /\ sizeIndex' = sizeIndex + 1
                        /\ lyPc' = "setViewportSize"
                        /\ UNCHANGED layoutOutcome
                  [] prog = "dynamicContent" ->
                        /\ lyPc' = "expectChange"
                        /\ UNCHANGED <<sizeIndex, layoutOutcome>>
                  [] OTHER ->
                        /\ layoutOutcome' = Passed
                        /\ lyPc' = "done"
                        /\ UNCHANGED sizeIndex
    /\ UNCHANGED <<otherVars, visibleWrappers, wrapper, viewport, box, offsets,
                   layoutTrace>>

\* expect(centeringChange).toBeLessThanOrEqual(maxChange)
ExpectChange ==
    /\ lyPc = "expectChange"
    /\ LET change2 == CenteringChange2(offsets[2], offsets[1])
       IN  /\ asserted' = Append(asserted, change2)
           /\ IF WithinMaxChange(change2, viewport.width)
              THEN layoutOutcome' = Passed
              ELSE layoutOutcome' = Failed(ExpectError(change2, MaxChange(viewport.width)))
    /\ lyPc' = "done"
    /\ UNCHANGED <<otherVars, visibleWrappers, wrapper, viewport, sizeIndex, box,
                   offsets, layoutTrace>>

(***************************************************************************)
(* Main scenario: should render all structured sections with meaningful    *)
(* content                                                                 *)
(***************************************************************************)
\* the steps of the test body, in program order; "success" is the final
\* success screenshot
ScenarioSteps ==
    <<"readiness", "navigate", "interface", "input", "submit", "render",
      "sections", "tooltips", "questions", "final", "success">>

StepIndex(step) == CHOOSE i \in DOMAIN ScenarioSteps : ScenarioSteps[i] = step

\* fullResponse.length < 500
MinResponseLength == 500
ResponseLengths == {0, 499, 500}

\* What a step's await can settle with.  threw: the awaited call rejected;
\* ok: the value the following `if` tests (isReady, isValid, the question
\* pattern matching or the section being absent, the body text being long
\* enough).  checkAppReadiness, validateAppInterface and validateTooltips
\* catch their own errors, so the steps built on them never throw.
StepResults(step) ==
    CASE step \in {"readiness", "interface", "tooltips"} ->
             {[threw |-> FALSE, ok |-> b] : b \in BOOLEAN}
      [] step = "questions" ->
             {[threw |-> FALSE, ok |-> (~visible) \/ matches] :
                 visible \in BOOLEAN, matches \in BOOLEAN}
      [] step = "final" ->
             {[threw |-> FALSE, ok |-> n >= MinResponseLength] : n \in ResponseLengths}
      [] OTHER -> {[threw |-> b, ok |-> ~b] : b \in BOOLEAN}

\* the scenario goes on although readinessResult.isReady is false
PassesIgnoringReadiness(step, result) ==
    step = "readiness" \/ (~result.threw /\ result.ok)

\* the step neither threw nor ran into the `throw new Error(...)` of its `if`
Passes(step, result) == ~result.threw /\ result.ok

\* `throw new Error(...)` of each step ("" where the awaited call's own error
\* propagates) and the screenshot saved just before it
StepError(step) ==
    CASE step = "readiness" -> "ThinkPal application is not ready"
      [] step = "interface" -> "App interface validation failed"
      [] step = "tooltips" -> "Tooltip validation failed"
      [] step = "questions" ->
             "No questions starting with \"How\" or \"What\" found in Reflection Prompts"
      [] step = "final" -> "Response too short"
      [] OTHER -> ""
StepShot(step) ==
    CASE step = "readiness" -> "tests/artifacts/app-not-ready.png"
      [] step = "interface" -> "tests/artifacts/interface-validation-failed.png"
      [] step = "tooltips" -> "tests/artifacts/tooltip-validation-failed.png"
      [] step = "questions" -> "tests/artifacts/questions-pattern-failed.png"
      [] step = "final" -> "tests/artifacts/response-too-short.png"
      [] OTHER -> ""

ScRunning == [status |-> "running", error |-> ""]
ScPassed == [status |-> "passed", error |-> ""]
ScFailed(err) == [status |-> "failed", error |-> err]

InitScenario ==
    /\ scPc = "readiness"
    /\ scAwaiting = FALSE
    /\ scStarted = <<>>
    /\ scCompleted = <<>>
    /\ scShots = <<>>
    /\ scOutcome = ScRunning

IdleScenario ==
    /\ scPc = "idle"
    /\ scAwaiting = FALSE
    /\ scStarted = <<>>
    /\ scCompleted = <<>>
    /\ scShots = <<>>
    /\ scOutcome = ScRunning

nonScenarioVars == <<prog, retryVars, now, readyVars, waitVars, sectionVars,
                     tooltipVars, allSectionsVars, layoutVars, moreVars>>

\* the body reaches the await of its current step and calls it
StepBegins ==
    /\ scPc \in {ScenarioSteps[i] : i \in DOMAIN ScenarioSteps}
    /\ ~scAwaiting
    /\ scAwaiting' = TRUE
    /\ scStarted' = Append(scStarted, scPc)
    /\ UNCHANGED <<nonScenarioVars, scPc, scCompleted, scShots, scOutcome>>

\* the await of `step` settles; the body tests the result and either goes on
\* to the next step (returns after the last one) or saves the failure
\* screenshot, if the step has one, and throws
StepSettles(step) ==
    /\ scAwaiting
    /\ scAwaiting' = FALSE
    /\ \E result \in StepResults(step) :
          /\ scCompleted' = Append(scCompleted, [step |-> step, result |-> result])
          /\ IF Passes(step, result)
             THEN /\ UNCHANGED scShots
                  /\ IF StepIndex(step) < Len(ScenarioSteps)
                     THEN /\ scPc' = ScenarioSteps[StepIndex(step) + 1]
                          /\ UNCHANGED scOutcome
                     ELSE /\ scPc' = "done"
                          /\ scOutcome' = ScPassed
             ELSE /\ scPc' = "done"
                  /\ IF result.threw \/ StepShot(step) = ""
                     THEN /\ scOutcome' = ScFailed(StepError(step))
                          /\ UNCHANGED scShots
                     ELSE \E saved \in BOOLEAN :
                             IF saved
                             THEN /\ scShots' = Append(scShots, StepShot(step))
                                  /\ scOutcome' = ScFailed(StepError(step))
                             ELSE /\ UNCHANGED scShots
                                  /\ scOutcome' = ScFailed("page.screenshot failed")
    /\ UNCHANGED <<nonScenarioVars, scStarted>>

\* Step 1: retryValidation(() => checkAppReadiness(page), ...)
ReadinessSettles == scPc = "readiness" /\ StepSettles("readiness")
\* Step 2: page.goto('/') and waitForLoadState('networkidle')
NavigateSettles == scPc = "navigate" /\ StepSettles("navigate")
\* Step 3: validateAppInterface(page)
InterfaceSettles == scPc = "interface" /\ StepSettles("interface")
\* Step 4: retryPageOperation(..., 'Query input')
InputSettles == scPc = "input" /\ StepSettles("input")
\* Step 5: retryPageOperation(..., 'Ask button click')
SubmitSettles == scPc = "submit" /\ StepSettles("submit")
\* Step 6: retryPageOperation(..., 'Response rendering')
RenderSettles == scPc = "render" /\ StepSettles("render")
\* Step 7: the loop over the sections
SectionsSettle == scPc = "sections" /\ StepSettles("sections")
\* Step 8: retryValidation(() => validateTooltips(page), ...)
TooltipsSettle == scPc = "tooltips" /\ StepSettles("tooltips")
\* Step 9: the question pattern
QuestionsSettle == scPc = "questions" /\ StepSettles("questions")
\* Step 10: the length of the body text
FinalSettles == scPc = "final" /\ StepSettles("final")
\* the success screenshot
SuccessSettles == scPc = "success" /\ StepSettles("success")

(***************************************************************************)
(* A scenario step wrapped in retryValidation                              *)
(***************************************************************************)
\* the validations the scenarios hand to retryValidation (steps 1, 7 and 8)
WrappedOperations == {"checkAppReadiness", "validateAllSections", "validateTooltips"}

\* the application as one attempt finds it: not answering, answering but the
\* response not rendered yet, or rendered
AppStates == {"down", "loading", "ready"}

\* what the wrapped validation returns on an application in state app
WrappedResult(operation, app) ==
    CASE operation = "checkAppReadiness" ->
             IF app = "down" THEN RcReturn(FALSE, ConnectionError, FALSE)
             ELSE IF app = "loading" THEN RcReturn(FALSE, StatusError(503), FALSE)
             ELSE RcReturn(TRUE, NoError, TRUE)
      [] operation = "validateAllSections" ->
             [isValid |-> ValidateAllSectionsResult(
                 [closed |-> app = "down",
                  views |-> [i \in 1..Len(Sections) |->
                      IF app = "ready"
                      THEN [visible |-> {Sections[i].selectors[1]},
                            text |-> Str(Filler(60))]
                      ELSE [visible |-> {}, text |-> Null]]]).isValid,
              kind |-> "returned"]
      [] operation = "validateTooltips" ->
             [isValid |-> ValidateTooltipsResult(
                 [closed |-> app = "down",
                  byClass |-> IF app = "ready"
                              THEN <<El(Str(<<"R", "i", "s", "k">>), Null,
                                        Str(GoodTooltip), Null)>>
                              ELSE <<>>,
                  byData |-> <<>>, byTitle |-> <<>>]).isValid,
              kind |-> "returned"]

\* if (!readinessResult.isReady) throw ... / if (!tooltipValidation.isValid) throw ...
Accepted(operation, result) ==
    IF operation = "checkAppReadiness" THEN result.isReady ELSE result.isValid

InitWrapped ==
    /\ wvOperation \in WrappedOperations
    /\ wvApp \in [1..DEFAULT_RETRY_OPTIONS.maxRetries -> AppStates]
    /\ wvPc = "loop"
    /\ wvAttempt = 1
    /\ wvInvocations = 0
    /\ wvSleeps = <<>>
    /\ wvReturned = <<>>
    /\ wvOutcome = ScRunning

IdleWrapped ==
    /\ wvOperation = ""
    /\ wvApp = <<>>
    /\ wvPc = "idle"
    /\ wvAttempt = 0
    /\ wvInvocations = 0
    /\ wvSleeps = <<>>
    /\ wvReturned = <<>>
    /\ wvOutcome = ScRunning

priorVars == <<prog, retryVars, now, readyVars, waitVars, sectionVars,
               tooltipVars, allSectionsVars, layoutVars, scenarioVars>>

\* one pass of retryValidation's loop, called with the default options: the
\* wrapped validation is awaited; a result is returned to the scenario
\* whatever it says, and only an exception is caught and retried
WrappedAttempt ==
    /\ wvPc = "loop"
    /\ wvAttempt <= DEFAULT_RETRY_OPTIONS.maxRetries
    /\ wvInvocations' = wvInvocations + 1
    /\ LET result == WrappedResult(wvOperation, wvApp[wvAttempt])
       IN  IF result.kind = "returned"
           THEN /\ wvReturned' = Append(wvReturned, result)
                /\ wvPc' = "returned"
                /\ UNCHANGED <<wvAttempt, wvSleeps, wvOutcome>>
           ELSE IF IsLastAttempt(wvAttempt, DEFAULT_RETRY_OPTIONS)
           THEN /\ wvOutcome' = ScFailed("thrown by the wrapped validation")
                /\ wvPc' = "done"
                /\ UNCHANGED <<wvAttempt, wvSleeps, wvReturned>>
           ELSE /\ wvSleeps' = Append(wvSleeps,
                                      Delay(DEFAULT_RETRY_OPTIONS, wvAttempt))
                /\ wvAttempt' = wvAttempt + 1
                /\ UNCHANGED <<wvPc, wvReturned, wvOutcome>>
    /\ UNCHANGED <<priorVars, parallelVars, interfaceVars, wvOperation, wvApp>>

\* the scenario tests the result retryValidation returned
WrappedResultTested ==
    /\ wvPc = "returned"
    /\ wvOutcome' = IF Accepted(wvOperation, wvReturned[Len(wvReturned)])
                    THEN ScPassed
                    ELSE ScFailed("validation failed")
    /\ wvPc' = "done"
    /\ UNCHANGED <<priorVars, parallelVars, interfaceVars, wvOperation, wvApp, wvAttempt,
                   wvInvocations, wvSleeps, wvReturned>>

(***************************************************************************)
(* Scenario instances under the test runner (playwright.config.ts)         *)
(***************************************************************************)
\* the tests of the describe block 'ThinkPal Decision Coach UI Tests'
Scenarios ==
    {"should render all structured sections with meaningful content",
     "should handle different query types",
     "should handle error states gracefully"}
\* projects: [...]
Projects == {"chromium", "firefox", "webkit", "Mobile Chrome", "Mobile Safari"}

\* workers: process.env.CI ? 1 : undefined, with fullyParallel: true; left
\* undefined the runner takes half the cores of the machine
WorkerCounts(ci) == IF ci THEN {1} ELSE {1, 2}

\* An artifact path, in the shape ScreenshotPath gives the retry screenshots.
ArtifactPath(file) == [dir |-> "tests/artifacts", stem |-> <<file>>, attempt |-> 0]
NoArtifact == [dir |-> "", stem |-> <<>>, attempt |-> 0]

\* page.screenshot({ path: 'tests/artifacts/test-success.png' }): the path
\* names neither the browser project nor the worker
SuccessShot(scenario, project) ==
    IF scenario = "should render all structured sections with meaningful content"
    THEN ArtifactPath("test-success.png")
    ELSE NoArtifact
\* the screenshot saved when readinessResult.isReady is false
NotReadyShot(scenario, project) ==
    CASE scenario = "should render all structured sections with meaningful content" ->
             ArtifactPath("app-not-ready.png")
      [] scenario = "should handle different query types" ->
             ArtifactPath("app-not-ready-query-types.png")
      [] OTHER -> ArtifactPath("app-not-ready-error-states.png")
\* the per-attempt screenshot of retryPageOperation(page, ..., 'Query input')
RetryShot(scenario, project, k) ==
    ScreenshotPath(<<"Q", "u", "e", "r", "y", " ", "i", "n", "p", "u", "t">>, k)

\* the main scenario under chromium, next to any other instance
InstancePairs ==
    {<<[scenario |-> "should render all structured sections with meaningful content",
        project |-> "chromium"],
       [scenario |-> s2, project |-> p2]>> : s2 \in Scenarios, p2 \in Projects}

InitParallel ==
    /\ \E ci \in BOOLEAN : parWorkers \in WorkerCounts(ci)
    /\ parInstances \in {pair \in InstancePairs : pair[1] # pair[2]}
    /\ parPc = <<"waiting", "waiting">>
    /\ parAttempt = <<1, 1>>
    /\ parWrites = {}

IdleParallel ==
    /\ parWorkers = 0
    /\ parInstances = <<>>
    /\ parPc = <<>>
    /\ parAttempt = <<>>
    /\ parWrites = {}

RunningInstances == {i \in DOMAIN parPc : parPc[i] = "running"}

\* instance i writes a file
Written(i, path) ==
    IF path = NoArtifact THEN parWrites
    ELSE parWrites \cup {[instance |-> i, path |-> path, during |-> RunningInstances]}

\* a free worker takes the next instance
InstanceStarts ==
    /\ \E i \in DOMAIN parPc :
          /\ parPc[i] = "waiting"
          /\ Cardinality(RunningInstances) < parWorkers
          /\ parPc' = [parPc EXCEPT ![i] = "running"]
    /\ UNCHANGED <<priorVars, wrappedVars, interfaceVars, parWorkers, parInstances, parAttempt, parWrites>>

\* an attempt of the main scenario's 'Query input' operation fails and
\* retryPageOperation saves its screenshot
InstanceRetryShot ==
    /\ \E i \in RunningInstances :
          /\ parInstances[i].scenario =
                "should render all structured sections with meaningful content"
          /\ parAttempt[i] <= DEFAULT_RETRY_OPTIONS.maxRetries
          /\ parWrites' = Written(i, RetryShot(parInstances[i].scenario,
                                              parInstances[i].project, parAttempt[i]))
          /\ parAttempt' = [parAttempt EXCEPT ![i] = parAttempt[i] + 1]
    /\ UNCHANGED <<priorVars, wrappedVars, interfaceVars, parWorkers, parInstances, parPc>>

\* an instance ends: at its readiness check, with the not-ready screenshot,
\* or at its end, with the success screenshot if it saves one
InstanceEnds ==
    /\ \E i \in RunningInstances, ready \in BOOLEAN :
          /\ parWrites' = Written(i,
                IF ready THEN SuccessShot(parInstances[i].scenario,
                                          parInstances[i].project)
                ELSE NotReadyShot(parInstances[i].scenario,
                                  parInstances[i].project))
          /\ parPc' = [parPc EXCEPT ![i] = "done"]
    /\ UNCHANGED <<priorVars, wrappedVars, interfaceVars, parWorkers, parInstances, parAttempt>>

(***************************************************************************)
(* validateAppInterface                                                    *)
(***************************************************************************)
\* the selector lists of the two locators
InputSelectors ==
    <<"[data-testid=\"query-input\"]", "input[type=\"text\"]", "textarea",
      "[contenteditable=\"true\"]">>
ButtonSelectors ==
    <<"[data-testid=\"ask-button\"]", "button:has-text(\"Ask\")",
      "button:has-text(\"Submit\")", "button[type=\"submit\"]">>

Range(seq) == {seq[i] : i \in DOMAIN seq}

\* page.locator('a, b, c, d').first(): the first element, in document order,
\* that matches any selector of the list; isVisible() of it, false if there
\* is none
FirstIsVisible(dom, sels) ==
    LET hits == {i \in DOMAIN dom : dom[i].matches \in Range(sels)}
    IN  hits # {} /\ dom[CHOOSE i \in hits : \A j \in hits : i <= j].visible

VaPending == [kind |-> "none", isValid |-> FALSE, errors |-> <<>>]

\* the body of validateAppInterface; on a closed page the first isVisible()
\* throws and the catch clause returns
ValidateAppInterfaceResult(pg) ==
    IF pg.closed
    THEN [kind |-> "returned", isValid |-> FALSE,
          errors |-> <<"Error validating app interface">>]
    ELSE LET errors ==
                 (IF ~FirstIsVisible(pg.dom, InputSelectors)
                  THEN <<"Query input field not found or not visible">>
                  ELSE <<>>)
                 \o (IF ~FirstIsVisible(pg.dom, ButtonSelectors)
                     THEN <<"Ask/Submit button not found or not visible">>
                     ELSE <<>>)
         IN  [kind |-> "returned", isValid |-> Len(errors) = 0, errors |-> errors]

\* most elements of the page that match a selector of either list
MaxDomElements == 2
\* an element: the selector it matches and whether it is visible
DomElements ==
    [matches : {"input[type=\"text\"]", "textarea", "button:has-text(\"Ask\")",
                "button[type=\"submit\"]"},
     visible : BOOLEAN]

InitInterface ==
    /\ vaPage \in [closed : BOOLEAN,
                   dom : UNION {[1..n -> DomElements] : n \in 0..MaxDomElements}]
    /\ vaPc = "start"
    /\ vaResult = VaPending

IdleInterface ==
    /\ vaPage = [closed |-> FALSE, dom |-> <<>>]
    /\ vaPc = "idle"
    /\ vaResult = VaPending

\* one call of validateAppInterface on a page that does not change during it
ValidateAppInterface ==
    /\ vaPc = "start"
    /\ vaResult' = ValidateAppInterfaceResult(vaPage)
    /\ vaPc' = "done"
    /\ UNCHANGED <<priorVars, wrappedVars, parallelVars, vaPage>>

(***************************************************************************)
(* Specification                                                           *)
(***************************************************************************)
Init ==
    /\ prog \in RetryVariants \cup
                {"checkAppReadiness", "waitForAppReady", "validateSection",
                 "validateTooltips", "validateAllSections", "mainScenario", "wrappedStep",
                 "parallelRun", "validateAppInterface"}
                \cup LayoutTests
    /\ now = 0
    /\ IF prog \in RetryVariants THEN InitRetry ELSE IdleRetry
    /\ IF prog = "checkAppReadiness" THEN InitReady ELSE IdleReady
    /\ IF prog = "waitForAppReady" THEN InitWait ELSE IdleWait
    /\ IF prog = "validateSection" THEN InitSection ELSE IdleSection
    /\ IF prog = "validateTooltips" THEN InitTooltips ELSE IdleTooltips
    /\ IF prog = "validateAllSections" THEN InitAllSections ELSE IdleAllSections
    /\ IF prog \in LayoutTests THEN InitLayout ELSE IdleLayout
    /\ IF prog = "mainScenario" THEN InitScenario ELSE IdleScenario
    /\ IF prog = "wrappedStep" THEN InitWrapped ELSE IdleWrapped
    /\ IF prog = "parallelRun" THEN InitParallel ELSE IdleParallel
    /\ IF prog = "validateAppInterface" THEN InitInterface ELSE IdleInterface

Next ==
    \/ Invoke
    \/ LoopFallThrough
    \/ OperationResolves
    \/ OperationRejects
    \/ ScreenshotResolves
    \/ ScreenshotRejects
    \/ SleepResolves
    \/ RcRequest
    \/ GetResponds
    \/ GetFails
    \/ RcWaitResolves
    \/ WaitLoop
    \/ WaitCheckReturns
    \/ WaitPauseResolves
    \/ ValidateSection
    \/ ValidateTooltips
    \/ ValidateAllSections
    \/ SetViewportSize
    \/ Goto
    \/ FindWrapper
    \/ ViewportSize
    \/ BoundingBox
    \/ SubmitQuery
    \/ TakeScreenshot
    \/ ExpectOffset
    \/ ExpectChange
    \/ StepBegins
    \/ ReadinessSettles
    \/ NavigateSettles
    \/ InterfaceSettles
    \/ InputSettles
    \/ SubmitSettles
    \/ RenderSettles
    \/ SectionsSettle
    \/ TooltipsSettle
    \/ QuestionsSettle
    \/ FinalSettles
    \/ SuccessSettles
    \/ WrappedAttempt
    \/ WrappedResultTested
    \/ InstanceStarts
    \/ InstanceRetryShot
    \/ InstanceEnds
    \/ ValidateAppInterface

Spec == Init /\ [][Next]_vars

\* one call of waitForAppReady, in which every await is eventually resumed:
\* the GET settles and the timers fire
InitWaitForAppReady ==
    /\ prog = "waitForAppReady"
    /\ now = 0
    /\ IdleRetry
    /\ IdleReady
    /\ InitWait
    /\ IdleSection
    /\ IdleTooltips
    /\ IdleAllSections
    /\ IdleLayout
    /\ IdleScenario
    /\ IdleWrapped
    /\ IdleParallel
    /\ IdleInterface

NextWaitForAppReady ==
    \/ RcRequest
    \/ GetResponds
    \/ GetFails
    \/ RcWaitResolves
    \/ WaitLoop
    \/ WaitCheckReturns
    \/ WaitPauseResolves

FairWaitSpec ==
    InitWaitForAppReady /\ [][NextWaitForAppReady]_vars
        /\ WF_vars(NextWaitForAppReady)

(***************************************************************************)
(* Properties of the retry utility                                         *)
(***************************************************************************)
RetryDone == prog \in RetryVariants /\ pc = "done"
AllFailed == \A i \in DOMAIN raised : ~raised[i].ok
FailedCount == Cardinality({i \in DOMAIN raised : ~raised[i].ok})

\* C1: in every retry variant, with maxRetries = N >= 1, an operation that
\* fails on every invocation is invoked exactly N times and the error thrown
\* to the caller is the error raised by invocation N itself.
C1_ExhaustionThrowsLastError ==
    (RetryDone /\ config.maxRetries >= 1 /\ AllFailed)
        => /\ invocations = config.maxRetries
           /\ Len(raised) = config.maxRetries
           /\ outcome.kind = "thrown"
           /\ outcome.error = raised[config.maxRetries].error

\* three failures in retryPageOperation, the first error differing from the last
C1_Witness ==
    /\ RetryDone /\ prog = "retryPageOperation" /\ AllFailed
    /\ config.maxRetries = 3 /\ Len(raised) = 3
    /\ raised[1].error # raised[3].error
    /\ outcome.kind = "thrown"

\* C2: the k-th delay slept is min(baseDelay * backoffMultiplier^(k-1),
\* maxDelay), so no delay exceeds maxDelay; with the default options the
\* delays are 500 then 1000.
C2_DelayIsCappedExponential ==
    prog \in RetryVariants =>
        /\ \A k \in DOMAIN sleeps :
            LET uncapped == config.baseDelay * Pow(config.backoffMultiplier, k - 1)
            IN  /\ sleeps[k] <= config.maxDelay
                /\ sleeps[k] <= uncapped
                /\ sleeps[k] \in {uncapped, config.maxDelay}
        /\ (options = <<>> /\ Len(sleeps) >= 2) => (sleeps[1] = 500 /\ sleeps[2] = 1000)

\* the second delay is cut from 1500 to maxDelay = 1000, the first is not cut
C2_Witness ==
    /\ prog \in RetryVariants
    /\ config.baseDelay = 500 /\ config.backoffMultiplier = 3
    /\ config.maxDelay = 1000
    /\ sleeps = <<500, 1000>>

\* C3: the utility sleeps only between a failed attempt and the next one: a
\* run that ends at attempt k has slept exactly k-1 times, a sleep is only
\* pending after a failed attempt that is not the last, and with
\* maxRetries = 1 there is one invocation, no sleep, and a failure is thrown
\* with no step between but the screenshot of retryPageOperation.
C3_SleepsOnlyBetweenAttempts ==
    (prog \in RetryVariants /\ config.maxRetries >= 1) =>
        /\ pc = "done" => (invocations = attempt /\ Len(sleeps) = attempt - 1)
        /\ pc = "awaitSleep" =>
              /\ attempt < config.maxRetries
              /\ ~raised[Len(raised)].ok
              /\ Len(sleeps) = attempt
        /\ config.maxRetries = 1 =>
              /\ sleeps = <<>>
              /\ invocations <= 1
              /\ (raised # <<>> /\ ~raised[1].ok) =>
                    /\ pc \in {"done", "awaitScreenshot"}
                    /\ pc = "done" => outcome.kind = "thrown"

\* a run that succeeds on attempt 2 after one sleep
C3_Witness ==
    /\ RetryDone /\ config.maxRetries = 3
    /\ attempt = 2 /\ outcome.kind = "returned" /\ Len(sleeps) = 1

C5_ScreenshotIsBestEffort ==
    prog = "retryPageOperation" =>
        /\ Len(shots) + (IF pc = "awaitScreenshot" THEN 1 ELSE 0) = FailedCount
        /\ \A i \in DOMAIN shots : shots[i].path.attempt = i /\ ~raised[i].ok
        /\ (pc = "done" /\ config.maxRetries >= 1) =>
              /\ invocations = Len(raised)
              /\ \A i \in 1..(Len(raised) - 1) : ~raised[i].ok
              /\ Len(sleeps) = Len(raised) - 1
              /\ \A k \in DOMAIN sleeps :
                    sleeps[k] = Min(config.baseDelay
                                      * Pow(config.backoffMultiplier, k - 1),
                                    config.maxDelay)
              /\ IF raised[Len(raised)].ok
                 THEN outcome = [kind |-> "returned",
                                 value |-> raised[Len(raised)].value,
                                 error |-> NULL]
                 ELSE /\ Len(raised) = config.maxRetries
                      /\ outcome = [kind |-> "thrown", value |-> NoValue,
                                    error |-> raised[Len(raised)].error]

\* every capture failed, the last one after the final attempt
C5_Witness ==
    /\ RetryDone /\ prog = "retryPageOperation" /\ config.maxRetries = 2
    /\ Len(shots) = 2 /\ ~shots[1].saved /\ ~shots[2].saved
    /\ outcome.kind = "thrown"

\* C6: when the operation first succeeds on invocation k <= maxRetries the
\* call returns that invocation's value after exactly k invocations and
\* invokes nothing more; no run invokes the operation more than maxRetries
\* times.
C6_FirstSuccessReturns ==
    prog \in RetryVariants =>
        /\ invocations <= (IF config.maxRetries >= 0 THEN config.maxRetries ELSE 0)
        /\ \A i \in DOMAIN raised :
              raised[i].ok =>
                  /\ i = Len(raised)
                  /\ invocations = i
                  /\ pc = "done"
                  /\ outcome.kind = "returned"
                  /\ outcome.value = raised[i].value
        /\ (pc = "done" /\ outcome.kind = "returned") =>
              (raised # <<>> /\ raised[Len(raised)].ok)

\* success on the third and last permitted invocation
C6_Witness ==
    /\ RetryDone /\ config.maxRetries = 3 /\ invocations = 3
    /\ outcome.kind = "returned" /\ outcome.value = "V2"

(***************************************************************************)
(* Properties of the readiness checker                                     *)
(***************************************************************************)
\* the GETs of the current call that the checker did not accept: a network
\* failure or a status other than 200
Unaccepted(i) == gets[i].failed \/ gets[i].status # 200

C8_Every2xxIsReady ==
    \A i \in DOMAIN gets :
        (~gets[i].failed /\ gets[i].status >= 200 /\ gets[i].status <= 299)
            => (rcPc = "done" /\ rcResult.kind = "returned" /\ rcResult.isReady)

\* C9: waitForAppReady returns true exactly when a poll returned
\* isReady = true, and that poll is the last one; it returns false only when
\* the elapsed time has reached timeoutMs and no poll succeeded; consecutive
\* polls start at least 2000 ms apart; and the call always terminates.
C9_WaitSafety ==
    prog = "waitForAppReady" =>
        /\ wResult \in {"pending", "true", "false"}
        /\ \A i \in DOMAIN polls :
              polls[i] => (i = Len(polls) /\ wPc = "done" /\ wResult = "true")
        /\ wResult = "true" => (polls # <<>> /\ polls[Len(polls)])
        /\ wResult = "false" =>
              /\ now - startTime >= timeoutMs
              /\ \A i \in DOMAIN polls : ~polls[i]
        /\ \A i \in DOMAIN pollStarts :
              i > 1 => pollStarts[i] - pollStarts[i - 1] >= 2000
        /\ wPc = "done" <=> wResult # "pending"

C9_WaitReturnsAndTerminates ==
    /\ []C9_WaitSafety
    /\ <>(prog = "waitForAppReady" => wPc = "done")

\* the second poll succeeds after a first poll that failed
C9_Witness ==
    /\ prog = "waitForAppReady" /\ wPc = "done"
    /\ polls = <<FALSE, TRUE>> /\ wResult = "true"

(***************************************************************************)
(* Properties of the section validator                                     *)
(***************************************************************************)
\* the text validateSection extracts from the page
ExtractedText == IF page.text.isNull THEN <<>> ELSE page.text.str

LowerCasePhrases ==
    { <<"n", "o", " ", "a", "n", "s", "w", "e", "r", " ", "a", "v", "a", "i", "l", "a", "b", "l", "e">>,
      <<"n", "o", " ", "c", "o", "n", "t", "e", "n", "t", " ", "a", "v", "a", "i", "l", "a", "b", "l", "e">>,
      <<"n", "o", " ", "s", "t", "r", "a", "t", "e", "g", "y", " ", "a", "v", "a", "i", "l", "a", "b", "l", "e">>,
      <<"n", "o", " ", "s", "t", "o", "r", "y", " ", "a", "v", "a", "i", "l", "a", "b", "l", "e">>,
      <<"n", "o", " ", "t", "o", "o", "l", "s", " ", "a", "v", "a", "i", "l", "a", "b", "l", "e">>,
      <<"n", "o", " ", "p", "r", "o", "m", "p", "t", "s", " ", "a", "v", "a", "i", "l", "a", "b", "l", "e">>,
      <<"n", "o", " ", "c", "o", "n", "c", "e", "p", "t", "s", " ", "a", "v", "a", "i", "l", "a", "b", "l", "e">>,
      <<"l", "o", "a", "d", "i", "n", "g", ".", ".", ".">>,
      <<"p", "l", "e", "a", "s", "e", " ", "w", "a", "i", "t", ".", ".", ".">>,
      <<"c", "o", "m", "i", "n", "g", " ", "s", "o", "o", "n", ".", ".", ".">>,
      <<"u", "n", "d", "e", "r", " ", "c", "o", "n", "s", "t", "r", "u", "c", "t", "i", "o", "n">> }

\* the extracted text holds a denylisted phrase in some mix of cases
HoldsDenylistedPhrase ==
    \E p \in LowerCasePhrases :
        \E i \in 0..(Len(ExtractedText) - Len(p)) :
            \A j \in 1..Len(p) : LowerChar(ExtractedText[i + j]) = p[j]

SectionExtracted ==
    prog = "validateSection" /\ vsPc = "done" /\ vsResult.hasContent

\* C11 as stated: a content holding a denylisted phrase (any case, any
\* length) is invalid, and a content of sufficient length holding none is
\* valid.
C11_DenylistDecidesValidity ==
    SectionExtracted =>
        /\ HoldsDenylistedPhrase => ~vsResult.isValid
        /\ (~HoldsDenylistedPhrase
              /\ Len(ExtractedText) >= MinLength(minLengthArg))
              => vsResult.isValid

\* C11 amended: a content holding a denylisted phrase (any case, any length)
\* is invalid, and a non-empty content of sufficient length holding none is
\* valid; an empty content is invalid even when minLength is 0.
C11_DenylistDecidesValidityOfNonEmpty ==
    SectionExtracted =>
        /\ HoldsDenylistedPhrase => ~vsResult.isValid
        /\ (~HoldsDenylistedPhrase /\ ExtractedText # <<>>
              /\ Len(ExtractedText) >= MinLength(minLengthArg))
              => vsResult.isValid
        /\ ExtractedText = <<>> => ~vsResult.isValid

\* 55 characters ending in "LOADING...": long enough, rejected for the phrase
C11_Witness ==
    /\ SectionExtracted
    /\ vsResult.characterCount = 55 /\ MinLength(minLengthArg) = 50
    /\ HoldsDenylistedPhrase
    /\ vsResult.error = "Section contains placeholder text"

(***************************************************************************)
(* Properties of the content validators                                    *)
(***************************************************************************)
\* a call whose page query failed: the page is closed and was queried
SectionQueryFailed ==
    prog = "validateSection" /\ vsPc = "done" /\ page.closed /\ selectors # <<>>
TooltipQueryFailed ==
    prog = "validateTooltips" /\ ttPc = "done" /\ ttPage.closed

\* C12 as stated: an infrastructure error inside validateSection or
\* validateTooltips reaches the caller as a thrown failure, not as a result.
C12_InfrastructureErrorIsThrown ==
    /\ SectionQueryFailed => vsResult.kind = "thrown"
    /\ TooltipQueryFailed => ttResult.kind = "thrown"

\* C12 amended: an infrastructure error inside validateSection or
\* validateTooltips is caught and returned as a result with isValid = false
\* and an "Error validating section" / "Error checking tooltips" message; no
\* call of either validator ends in a throw.
C12_InfrastructureErrorIsReturned ==
    /\ vsResult.kind # "thrown"
    /\ ttResult.kind # "thrown"
    /\ SectionQueryFailed =>
          /\ vsResult.kind = "returned"
          /\ ~vsResult.isValid
          /\ vsResult.error = "Error validating section"
    /\ TooltipQueryFailed =>
          /\ ttResult.kind = "returned"
          /\ ~ttResult.isValid
          /\ Len(ttResult.errors) = 1
          /\ ttResult.errors[1].error = "Error checking tooltips"

\* validateSection on a closed page with a selector to query
C12_Witness ==
    /\ SectionQueryFailed
    /\ Len(selectors) = 2
    /\ vsResult.kind = "returned"

\* the elements validateTooltips examined, from the page
Examined == Located(ttPage)
TooltipsExamined ==
    prog = "validateTooltips" /\ ttPc = "done" /\ ~ttPage.closed /\ Examined # <<>>

\* the rules of an element, on its trimmed label and trimmed payload
LabelOf(el) == IF el.text.isNull THEN <<>> ELSE Trim(el.text.str)
PayloadOf(el) == Trim(TooltipText(el))
WellFormed(el) ==
    /\ Len(LabelOf(el)) >= 2
    /\ Len(PayloadOf(el)) >= 15
    /\ ~IsPlaceholder(PayloadOf(el))
FirstFailedRule(el) ==
    CASE LabelOf(el) = <<>> -> "Missing term text"
      [] LabelOf(el) # <<>> /\ Len(LabelOf(el)) < 2 -> "Term too short"
      [] Len(LabelOf(el)) >= 2 /\ PayloadOf(el) = <<>> -> "Missing tooltip content"
      [] Len(LabelOf(el)) >= 2 /\ PayloadOf(el) # <<>> /\ Len(PayloadOf(el)) < 15
            -> "Tooltip too short"
      [] OTHER -> "Tooltip contains placeholder text"
IllFormed == {i \in DOMAIN Examined : ~WellFormed(Examined[i])}

\* C13: an element is counted valid iff its trimmed label has at least 2
\* characters, its trimmed payload at least 15, and the payload holds no
\* placeholder phrase; every other element adds exactly one entry to errors,
\* in element order, naming the first rule it fails.
C13_ElementRules ==
    TooltipsExamined =>
        /\ Len(ttResult.details) = Len(Examined)
        /\ \A i \in DOMAIN Examined :
              ttResult.details[i].isValid <=> WellFormed(Examined[i])
        /\ ttResult.validTooltips = Len(Examined) - Cardinality(IllFormed)
        /\ Len(ttResult.errors) = Cardinality(IllFormed)
        /\ \A k \in DOMAIN ttResult.errors :
              \E i \in IllFormed :
                  /\ Cardinality({j \in IllFormed : j < i}) = k - 1
                  /\ ttResult.errors[k].error = FirstFailedRule(Examined[i])
                  /\ ttResult.errors[k].term = LabelOf(Examined[i])

\* a valid element followed by one whose payload is 14 characters once trimmed
C13_Witness ==
    /\ TooltipsExamined /\ Len(Examined) = 2
    /\ ttResult.details[1].isValid
    /\ Len(ttResult.errors) = 1
    /\ ttResult.errors[1].error = "Tooltip too short"
    /\ Len(TooltipText(Examined[2])) > 15

\* C14: with no tooltip located the result is invalid; isValid = true implies
\* tooltipCount >= 1, validTooltips = tooltipCount and no errors; and with at
\* least one tooltip located and none failing, isValid = true.
C14_OverallValidity ==
    (prog = "validateTooltips" /\ ttPc = "done") =>
        /\ (ttPage.closed \/ Examined = <<>>) => ~ttResult.isValid
        /\ ttResult.isValid =>
              /\ ttResult.tooltipCount >= 1
              /\ ttResult.validTooltips = ttResult.tooltipCount
              /\ ttResult.errors = <<>>
        /\ (~ttPage.closed /\ Examined # <<>> /\ IllFormed = {}) =>
              ttResult.isValid
        /\ ~ttPage.closed => ttResult.tooltipCount = Len(Examined)

\* two located tooltips, both well formed
C14_Witness ==
    /\ prog = "validateTooltips" /\ ttPc = "done"
    /\ ttResult.isValid /\ ttResult.tooltipCount = 2

AllSectionsDone == prog = "validateAllSections" /\ asPc = "done"

\* the five section names, in the order of the source
SectionNames ==
    <<"How to Strategize Your Decision", "Story in Action", "Analytical Tools",
      "Reflection Prompts", "Concepts/Tools/Practice Reference">>

InvalidSections == {i \in DOMAIN asResult.results : ~asResult.results[i].isValid}

\* section i shows, on an open page, a visible element whose parent text has
\* at least 50 characters and no placeholder phrase
ShowsGoodSection(i) ==
    /\ asPage.views[i].visible # {}
    /\ ~asPage.views[i].text.isNull
    /\ Len(asPage.views[i].text.str) >= 50
    /\ ~HasPlaceholder(asPage.views[i].text.str)

\* C15: validateAllSections validates exactly the 5 fixed sections in their
\* fixed order; isValid holds iff all 5 results are valid; errors holds one
\* message per invalid section, in order and prefixed with its name, and is
\* empty iff isValid.
C15_AllSectionsAggregate ==
    AllSectionsDone =>
        /\ asResult.kind = "returned"
        /\ Len(asResult.results) = 5
        /\ \A i \in 1..5 :
              /\ asResult.results[i].sectionName = SectionNames[i]
              /\ asResult.results[i].kind = "returned"
              /\ ~asPage.closed =>
                    (asResult.results[i].isValid <=> ShowsGoodSection(i))
        /\ asResult.isValid <=> InvalidSections = {}
        /\ Len(asResult.errors) = Cardinality(InvalidSections)
        /\ \A k \in DOMAIN asResult.errors :
              \E i \in InvalidSections :
                  /\ Cardinality({j \in InvalidSections : j < i}) = k - 1
                  /\ asResult.errors[k].name = SectionNames[i]
                  /\ asResult.errors[k].error = asResult.results[i].error
                  /\ asResult.errors[k].error # ""
        /\ asResult.errors = <<>> <=> asResult.isValid

\* sections 2 and 5 invalid, the other three valid
C15_Witness ==
    /\ AllSectionsDone /\ ~asPage.closed
    /\ InvalidSections = {2, 5}
    /\ asResult.errors[1].name = "Story in Action"
    /\ asResult.errors[1].error = "Section too short"
    /\ asResult.errors[2].error = "Section not found or not visible"

\* the page shows the 4 sections of the mock scenario: strategic, story,
\* questions (Reflection Prompts) and concepts
ShowsMockSections ==
    /\ ~asPage.closed
    /\ \A i \in {1, 2, 4, 5} : ShowsGoodSection(i)

\* C16 as stated: the 4 mock sections with good content make
\* validateAllSections valid, and one well-formed tooltip makes
\* validateTooltips valid.
C16_MockPageIsValid ==
    /\ (AllSectionsDone /\ ShowsMockSections) => asResult.isValid
    /\ (TooltipsExamined /\ \E i \in DOMAIN Examined : WellFormed(Examined[i]))
          => ttResult.isValid

\* C16 amended: validateAllSections is valid when all 5 of its sections, the
\* 4 of the mock scenario and Analytical Tools, show good content, and is
\* invalid when Analytical Tools does not; validateTooltips is valid when at
\* least one tooltip is located and every located tooltip is well formed.
C16_FiveSectionsAndAllTooltipsGood ==
    /\ (AllSectionsDone /\ ShowsMockSections) =>
          /\ asResult.isValid <=> ShowsGoodSection(3)
          /\ ~ShowsGoodSection(3) =>
                (Len(asResult.errors) = 1
                    /\ asResult.errors[1].name = "Analytical Tools")
    /\ (TooltipsExamined /\ \A i \in DOMAIN Examined : WellFormed(Examined[i]))
          => ttResult.isValid

\* the 4 mock sections are good, Analytical Tools is not on the page
C16_Witness ==
    /\ AllSectionsDone /\ ShowsMockSections
    /\ asPage.views[3].visible = {}
    /\ ~asResult.isValid

\* the test reached the expect on its last offset: it ended, and neither
\* before an offset was computed nor at the screenshot
OffsetAsserted ==
    /\ lyPc = "done"
    /\ offsets # <<>>
    /\ ~box.isNull
    /\ layoutOutcome.error # ScreenshotError

\* C17: the offset is |(box.x + box.width/2) - viewportWidth/2|: 0 for a
\* wrapper at x = 0 as wide as the viewport, never negative; and the
\* single-viewport test passes iff its offset is at most 5 px (twice the
\* offset at most 10).
C17_OffsetIsAbsoluteDistance ==
    (prog = "centered" /\ offsets # <<>>) =>
        LET d2 == (box.x2 + box.width) - viewport.width
        IN  /\ Len(offsets) = 1
            /\ offsets[1] = IF d2 >= 0 THEN d2 ELSE 0 - d2
            /\ offsets[1] >= 0
            /\ (box.x2 = 0 /\ box.width = viewport.width) => offsets[1] = 0
            /\ layoutOutcome.status = "passed" => offsets[1] <= 10
            /\ OffsetAsserted =>
                  (layoutOutcome.status = "passed" <=> offsets[1] <= 10)

\* a wrapper 6 px left of centre fails the test, with offset 6 px
C17_Witness ==
    /\ prog = "centered" /\ OffsetAsserted
    /\ box.x2 = -12 /\ box.width = viewport.width
    /\ offsets = <<12>>
    /\ layoutOutcome.status = "failed"

\* the sweep performs, for each size it gets to and in the order of
\* viewportSizes, a resize, a navigation and a measurement
SweepInOrder ==
    \A k \in DOMAIN layoutTrace :
        /\ layoutTrace[k][1] =
              <<"setViewportSize", "goto", "boundingBox">>[((k - 1) % 3) + 1]
        /\ layoutTrace[k][2] = viewportSizes[((k - 1) \div 3) + 1].name
SweepPassesOnlyIfAllWithin ==
    layoutOutcome.status = "passed" =>
        /\ Len(offsets) = 6
        /\ Len(layoutTrace) = 18
        /\ \A i \in 1..6 : offsets[i] <= 10
\* the sweep failed at its current size on an offset above 5 px
SweepFailedOnOffset ==
    /\ prog = "viewportSweep" /\ OffsetAsserted
    /\ layoutOutcome.status = "failed"
    /\ offsets[Len(offsets)] > 10
SweepFailureNamesViewport ==
    SweepFailedOnOffset =>
        layoutOutcome.error.sizeName = viewportSizes[sizeIndex].name

\* C18: the sweep takes the 6 sizes in order, resizing, navigating and
\* measuring at each; it passes only if all 6 offsets are at most 5 px; and
\* when a size has an offset above 5 px it fails with an error that contains
\* that viewport's name.
C18_SweepFailureNamesTheViewport ==
    prog = "viewportSweep" =>
        /\ SweepInOrder
        /\ SweepPassesOnlyIfAllWithin
        /\ SweepFailureNamesViewport

\* both expects of the dynamic-content test were evaluated, or the first failed
ChangeAsserted ==
    /\ prog = "dynamicContent" /\ OffsetAsserted
    /\ Len(offsets) = 2

\* C19: the dynamic-content test passes only if the final offset is at most
\* 5 px and |finalOffset - initialOffset| is at most 5 px on a viewport at
\* most 768 px wide and at most 2 px on a wider one.
C19_DynamicContentBounds ==
    prog = "dynamicContent" =>
        LET initial2 == offsets[1]
            final2 == offsets[2]
            change2 == IF final2 >= initial2 THEN final2 - initial2
                       ELSE initial2 - final2
            bound2 == IF viewport.width <= 768 THEN 10 ELSE 4
        IN  /\ layoutOutcome.status = "passed" =>
                  (Len(offsets) = 2 /\ final2 <= 10 /\ change2 <= bound2)
            /\ ChangeAsserted =>
                  (layoutOutcome.status = "passed" <=>
                      (final2 <= 10 /\ change2 <= bound2))

\* a change of 2.5 px passes at width 768
C19_Witness ==
    /\ ChangeAsserted
    /\ viewport.width = 768
    /\ offsets = <<0, 5>>
    /\ layoutOutcome.status = "passed"
\* and fails at width 769
ChangeFailsOnDesktop ==
    /\ ChangeAsserted
    /\ viewport.width = 769
    /\ offsets = <<0, 5>>
    /\ layoutOutcome.status = "failed"

\* the steps the claim names, as steps of the test body: "validate" is the
\* section validation of step 7
ClaimedOrder == <<"readiness", "navigate", "input", "submit", "render", "sections">>
Started(step) == \E k \in DOMAIN scStarted : scStarted[k] = step
\* the step returned, and returned what the scenario requires of it
Succeeded(entry) == ~entry.result.threw /\ entry.result.ok
CompletedPassing(step) ==
    \E k \in DOMAIN scCompleted :
        scCompleted[k].step = step /\ Succeeded(scCompleted[k])

\* C20: the steps of the main scenario run strictly in order (readiness,
\* navigate, input, submit, wait-for-render, validate), none starting before
\* the previous one completed successfully; a failure at any step ends the
\* scenario as failed with no later step executed, and after a failed
\* readiness check nothing but the readiness check has run.
C20_StepsRunInOrderAndStopAtFailure ==
    prog = "mainScenario" =>
        /\ Len(scCompleted) \in {Len(scStarted), Len(scStarted) - 1}
        /\ \A k \in DOMAIN scStarted : scStarted[k] = ScenarioSteps[k]
        /\ \A k \in DOMAIN scCompleted : scCompleted[k].step = scStarted[k]
        /\ \A k \in DOMAIN scStarted :
              k > 1 => (Len(scCompleted) >= k - 1 /\ Succeeded(scCompleted[k - 1]))
        /\ \A i, j \in DOMAIN ClaimedOrder :
              (i < j /\ Started(ClaimedOrder[j])) => CompletedPassing(ClaimedOrder[i])
        /\ \A k \in DOMAIN scCompleted :
              ~Succeeded(scCompleted[k]) =>
                  /\ k = Len(scStarted)
                  /\ scPc = "done"
                  /\ scOutcome.status = "failed"
        /\ scOutcome.status = "passed" =>
              (Len(scCompleted) = Len(ScenarioSteps)
                  /\ \A k \in DOMAIN scCompleted : Succeeded(scCompleted[k]))
        /\ scOutcome.status = "failed" =>
              (scPc = "done" /\ ~scAwaiting /\ scCompleted # <<>>
                  /\ ~Succeeded(scCompleted[Len(scCompleted)]))

\* readiness returned isReady = false: the scenario has failed and only the
\* readiness check has run
C20_Witness ==
    /\ prog = "mainScenario"
    /\ scCompleted = <<[step |-> "readiness",
                        result |-> [threw |-> FALSE, ok |-> FALSE]]>>
    /\ scStarted = <<"readiness">>
    /\ scOutcome = ScFailed("ThinkPal application is not ready")
    /\ scShots = <<"tests/artifacts/app-not-ready.png">>

WrappedStepDone == prog = "wrappedStep" /\ wvPc = "done"
\* the first attempt finds the application not ready, a later attempt within
\* the budget would find it ready
TransientFailure ==
    /\ ~Accepted(wvOperation, WrappedResult(wvOperation, wvApp[1]))
    /\ \E k \in 2..DEFAULT_RETRY_OPTIONS.maxRetries :
          Accepted(wvOperation, WrappedResult(wvOperation, wvApp[k]))

\* C21: a wrapped readiness check or content validation that fails on an
\* early attempt and would succeed on a later one within the budget is
\* invoked again, and the scenario step succeeds.
C21_TransientFailureIsAbsorbed ==
    (WrappedStepDone /\ TransientFailure) =>
        /\ wvOutcome.status = "passed"
        /\ wvInvocations > 1

\* two different instances wrote the same file while both were running
ConcurrentWritesOf(w1, w2) ==
    /\ w1.instance # w2.instance
    /\ w1.instance \in w2.during
    /\ w1.path = w2.path

\* C22: no two concurrently running scenario instances ever write the same
\* artifact file path.
C22_NoSharedArtifactPath ==
    prog = "parallelRun" =>
        \A w1, w2 \in parWrites : ~ConcurrentWritesOf(w1, w2)

InterfaceChecked ==
    prog = "validateAppInterface" /\ vaPc = "done" /\ ~vaPage.closed
\* some selector of the list matches a visible element
SomeStrategyMatchesVisible(sels) ==
    \E k \in DOMAIN sels : \E i \in DOMAIN vaPage.dom :
        vaPage.dom[i].matches = sels[k] /\ vaPage.dom[i].visible
Reports(error) == \E k \in DOMAIN vaResult.errors : vaResult.errors[k] = error

\* C23: validateAppInterface reports no error for the input control
\* (respectively the submit control) whenever at least one of its strategies
\* matches a visible element, and the 'not found or not visible' error only
\* when none does; isValid is true iff the errors list is empty.
C23_InterfaceFallsBackThroughStrategies ==
    InterfaceChecked =>
        /\ Reports("Query input field not found or not visible")
              <=> ~SomeStrategyMatchesVisible(InputSelectors)
        /\ Reports("Ask/Submit button not found or not visible")
              <=> ~SomeStrategyMatchesVisible(ButtonSelectors)
        /\ vaResult.isValid <=> vaResult.errors = <<>>

\* validateSection returned on a page that answers its queries
SectionLookedUp == prog = "validateSection" /\ vsPc = "done" /\ ~page.closed
VisibleCandidates == {i \in DOMAIN selectors : selectors[i] \in page.visible}
NotFound == vsResult.error = "Section not found or not visible"

\* C24: validateSection consults the selector candidates in list order up to
\* and including the first that resolves to a visible element, consults none
\* after it and extracts the content through it; it returns isValid = false
\* with the 'not found or not visible' error exactly when no candidate is
\* visible, which includes the empty candidate list.
C24_FirstVisibleCandidateIsUsed ==
    SectionLookedUp =>
        /\ \A i \in DOMAIN consulted : i \in DOMAIN selectors /\ consulted[i] = selectors[i]
        /\ VisibleCandidates # {} =>
              /\ \E f \in VisibleCandidates :
                    /\ \A j \in VisibleCandidates : f <= j
                    /\ Len(consulted) = f
              /\ vsResult.hasContent
        /\ VisibleCandidates = {} =>
              (Len(consulted) = Len(selectors) /\ ~vsResult.hasContent)
        /\ NotFound <=> VisibleCandidates = {}
        /\ NotFound => ~vsResult.isValid
        /\ selectors = <<>> => NotFound

\* the second candidate is not visible, the first is: only the first is
\* consulted and the section is valid
C24_Witness ==
    /\ SectionLookedUp
    /\ selectors = <<"s1", "s2">>
    /\ page.visible = {"s1"}
    /\ consulted = <<"s1">>
    /\ vsResult.isValid

TooltipsLocated == prog = "validateTooltips" /\ ttPc = "done" /\ ~ttPage.closed
\* the matches of the three strategies, in priority order
StrategyMatches == <<ttPage.byClass, ttPage.byData, ttPage.byTitle>>
StrategySelectors == <<"span[class*=\"tooltip\"]", "[data-tooltip]", "[title]">>
NonEmptyStrategies == {k \in 1..3 : StrategyMatches[k] # <<>>}

\* C25: validateTooltips consults the class, data-attribute and
\* title-attribute strategies in that order, a later one only when every
\* earlier one matched zero elements, and validates and counts exactly the
\* matches of the first strategy with a non-zero count.
C25_TooltipFallbackChain ==
    TooltipsLocated =>
        /\ \A k \in DOMAIN ttCounted : ttCounted[k] = StrategySelectors[k]
        /\ \A k \in 1..3 :
              k \in DOMAIN ttCounted <=> \A j \in 1..(k - 1) : StrategyMatches[j] = <<>>
        /\ NonEmptyStrategies = {} =>
              (ttResult.tooltipCount = 0 /\ ttResult.details = <<>>)
        /\ \A k \in NonEmptyStrategies :
              (\A j \in NonEmptyStrategies : k <= j) =>
                  /\ ttResult.tooltipCount = Len(StrategyMatches[k])
                  /\ Len(ttResult.details) = Len(StrategyMatches[k])
                  /\ \A i \in DOMAIN ttResult.details :
                        /\ ttResult.details[i].term = LabelOf(StrategyMatches[k][i])
                        /\ ttResult.details[i].tooltip = PayloadOf(StrategyMatches[k][i])

\* no class match, one data-attribute match, one title match: the
\* data-attribute match is the one validated and [title] is not consulted
C25_Witness ==
    /\ TooltipsLocated
    /\ ttPage.byClass = <<>> /\ ttPage.byData # <<>> /\ ttPage.byTitle # <<>>
    /\ ttPage.byData # ttPage.byTitle
    /\ ttCounted = <<"span[class*=\"tooltip\"]", "[data-tooltip]">>
    /\ ttResult.tooltipCount = 1

\* the wrapper search of a layout test has run
WrapperChosen == prog \in LayoutTests /\ wrapper # ""
\* the wrapper is the first visible entry of the selector list, body if none
WrapperIsFirstVisible ==
    WrapperChosen =>
        IF \A i \in DOMAIN wrapperSelectors : wrapperSelectors[i] \notin visibleWrappers
        THEN wrapper = "body"
        ELSE \E i \in DOMAIN wrapperSelectors :
                /\ wrapper = wrapperSelectors[i]
                /\ wrapper \in visibleWrappers
                /\ \A j \in 1..(i - 1) : wrapperSelectors[j] \notin visibleWrappers
\* the test ended at a boundingBox() that returned null: the search had run,
\* the centered test had read its viewport, and the last box is null
NoBoundingBox ==
    /\ WrapperChosen /\ lyPc = "done" /\ box.isNull
    /\ prog = "centered" => ~viewport.isNull
ThrewBoxError ==
    /\ layoutOutcome.status = "failed"
    /\ layoutOutcome.error.text \in
          {"Wrapper bounding box not available",
           "Wrapper bounding box not available for",
           "Initial wrapper bounding box not available",
           "Final wrapper bounding box not available"}

\* C26 as stated: in every layout test the wrapper is the first visible
\* element of the prioritized selector list, or body when none is visible,
\* and when the chosen element has no bounding box the test throws before
\* any centering assertion is evaluated.
C26_NoBoxFailsBeforeAnyAssertion ==
    /\ WrapperIsFirstVisible
    /\ NoBoundingBox => (ThrewBoxError /\ asserted = <<>>)

\* C26 amended: the wrapper is the first visible element of the selector
\* list, or body; a null bounding box makes the test throw before the
\* centering assertion on that measurement, so no offset is computed or
\* asserted from it; in the sweep the assertions of the earlier viewport
\* sizes, which all held, have been evaluated by then.
C26_NoBoxFailsBeforeItsAssertion ==
    /\ WrapperIsFirstVisible
    /\ NoBoundingBox =>
          /\ ThrewBoxError
          /\ Len(asserted) = IF prog = "viewportSweep" THEN sizeIndex - 1 ELSE 0
          /\ Len(offsets) =
                CASE prog = "viewportSweep" -> sizeIndex - 1
                  [] prog = "centered" -> 0
                  [] OTHER -> IF layoutOutcome.error = BoxError(prog, 0, "")
                              THEN 0 ELSE 1
          /\ \A k \in DOMAIN asserted : WithinTolerance(asserted[k])

\* the sweep meets a null bounding box at its second size, with
\* '#root > div' visible next to the higher-priority '.container'
C26_Witness ==
    /\ prog = "viewportSweep" /\ NoBoundingBox
    /\ sizeIndex = 2 /\ Len(asserted) = 1
    /\ visibleWrappers = {".container", "#root > div"}
    /\ wrapper = ".container"
    /\ layoutOutcome.error.sizeName = "Laptop"

\* what a caller can observe of the operation's treatment
Observed == [invocations |-> invocations, sleeps |-> sleeps, outcome |-> outcome]
\* the invocations, delays and result that a configuration and a sequence of
\* operation outcomes determine; the variant is not a parameter
Determined(cfg, outs) ==
    IF outs = <<>>
    THEN [invocations |-> 0, sleeps |-> <<>>,
          outcome |-> [kind |-> "thrown", value |-> NoValue, error |-> NULL]]
    ELSE LET n == Len(outs)
         IN  [invocations |-> n,
              sleeps |-> [k \in 1..(n - 1) |->
                            Min(cfg.baseDelay * Pow(cfg.backoffMultiplier, k - 1),
                                cfg.maxDelay)],
              outcome |-> IF outs[n].ok
                          THEN [kind |-> "returned", value |-> outs[n].value,
                                error |-> NULL]
                          ELSE [kind |-> "thrown", value |-> NoValue,
                                error |-> outs[n].error]]
\* the operation is invoked again exactly after a failure that is not the
\* maxRetries-th
OutcomesComplete(cfg, outs) ==
    /\ Len(outs) <= (IF cfg.maxRetries >= 0 THEN cfg.maxRetries ELSE 0)
    /\ \A i \in 1..(Len(outs) - 1) : ~outs[i].ok
    /\ outs = <<>> => cfg.maxRetries <= 0
    /\ outs # <<>> => (outs[Len(outs)].ok \/ Len(outs) = cfg.maxRetries)

\* C27: retry, retryValidation and retryPageOperation treat the operation
\* alike: the number of invocations, the sequence of delays slept and the
\* value returned or error propagated are one function of the configuration
\* and the operation's outcomes, the same for the three variants; only
\* retryPageOperation takes screenshots.
C27_VariantsAreEquivalent ==
    /\ RetryDone =>
          /\ OutcomesComplete(config, raised)
          /\ Observed = Determined(config, raised)
    /\ (prog \in RetryVariants /\ prog # "retryPageOperation") => shots = <<>>

\* retryPageOperation fails once, takes a screenshot that is not saved,
\* sleeps and succeeds on the second invocation
C27_Witness ==
    /\ RetryDone /\ prog = "retryPageOperation"
    /\ Len(raised) = 2 /\ ~raised[1].ok /\ raised[2].ok
    /\ Len(shots) = 1 /\ ~shots[1].saved
    /\ Len(sleeps) = 1
    /\ Observed = Determined(config, raised)

DynamicContent == prog = "dynamicContent"
\* the largest initial offset, in half pixels, from which a final offset
\* within tolerance is within the change bound: 10 px at widths up to 768,
\* 7 px above
LargestInitial2(width) == IF width <= 768 THEN 20 ELSE 14

PassesFromSevenOnDesktop ==
    /\ DynamicContent /\ layoutOutcome.status = "passed"
    /\ viewport.width > 768
    /\ offsets = <<14, 10>>

Waiting == prog = "waitForAppReady"
\* a poll is in progress: checkAppReadiness has been called and not returned
PollInProgress == Waiting /\ wPc = "awaitCheck" /\ rcPc # "done"

\* C29: waitForAppReady tests its timeout only where a poll would start: a
\* poll starts only while the elapsed time is below timeoutMs, so with
\* timeoutMs <= 0 the call returns false without a request; a poll that has
\* started is never cut short, whatever time has passed: the call ends only
\* between polls, after each started poll returned, a poll being up to 3
\* GETs and two 1000 ms waits; so the call may return, true included, later
\* than timeoutMs after its start.
C29_TimeoutOnlyBetweenPolls ==
    Waiting =>
        /\ \A i \in DOMAIN pollStarts : pollStarts[i] < timeoutMs
        /\ timeoutMs <= 0 =>
              /\ pollStarts = <<>> /\ gets = <<>>
              /\ wPc = "done" /\ wResult = "false" => now = startTime
              /\ wResult # "true"
        /\ PollInProgress => wResult = "pending"
        /\ wPc = "done" =>
              /\ Len(polls) = Len(pollStarts)
              /\ pollStarts # <<>> => rcPc = "done"
        /\ wPc = "awaitCheck" => Len(polls) = Len(pollStarts) - 1
        /\ Len(gets) <= 3
        /\ rcWaits \in {<<>>, <<1000>>, <<1000, 1000>>}

\* with timeoutMs = 1 the only poll starts at 0 and takes three GETs and two
\* waits; the call returns true 2000 ms or more after its start
C29_Witness ==
    /\ Waiting /\ wPc = "done" /\ wResult = "true"
    /\ timeoutMs = 1
    /\ Len(gets) = 3 /\ Len(rcWaits) = 2
    /\ now - startTime >= 2000
\* a call with timeoutMs = 0 returns false at once
ZeroTimeoutReturnsFalse ==
    /\ Waiting /\ wPc = "done" /\ wResult = "false"
    /\ timeoutMs = 0 /\ gets = <<>> /\ now = startTime
\* a poll is still in progress after the deadline has passed
PollRunsPastDeadline ==
    /\ PollInProgress /\ now - startTime > timeoutMs

\* a retry call whose merged configuration allows no attempt
NoAttemptAllowed == prog \in RetryVariants /\ config.maxRetries <= 0

\* C30: with maxRetries <= 0 the retry utility never invokes the operation
\* and sleeps no delay, and the call still fails: what it throws is the
\* initial null value of lastError, not an Error object.
C30_NoAttemptThrowsNull ==
    NoAttemptAllowed =>
        /\ invocations = 0 /\ raised = <<>>
        /\ sleeps = <<>> /\ shots = <<>>
        /\ lastError = NULL
        /\ pc \in {"loop", "done"}
        /\ pc = "done" =>
              /\ outcome.kind = "thrown"
              /\ outcome.error = NULL
              /\ outcome.error \notin OperationErrors

\* retryPageOperation called with maxRetries = -1 has thrown null
C30_Witness ==
    /\ NoAttemptAllowed /\ pc = "done"
    /\ prog = "retryPageOperation" /\ config.maxRetries = -1
    /\ invocations = 0 /\ outcome.kind = "thrown" /\ outcome.error = NULL

=============================================================================
